---- MODULE Spec2Model ----
(***************************************************************************)
(* A model of the reference checks of AdassChecks.py:                      *)
(*   GetBibFileRefs  - the line scanner that pulls the reference keys out  *)
(*                     of a .bib file (specification SpecBib);             *)
(*   VerifyRefs      - the three passes that reconcile the .bib keys, the  *)
(*                     cited keys and the \bibitem keys (SpecRefs).        *)
(* Python strings are sequences of one-character strings, so that strip(), *)
(* lower(), find() and slicing are computed, not assumed.                  *)
(***************************************************************************)
EXTENDS Integers, Sequences, FiniteSets

VARIABLES
    pc,            \* position in the routine being run
    BatchMode,     \* GetBibFileRefs: BatchMode; VerifyRefs: Problems and Warnings supplied
    Printed,       \* what the routine has printed (interactive mode)
    \* ---- GetBibFileRefs
    BibExists,     \* os.path.exists(BibFileName)
    Records,       \* the records the .bib file was written from
    BibFile,       \* the lines of the .bib file
    LineNo,        \* number of lines read so far
    State,         \* the scanner state
    BibFileRefs,   \* the keys found (GetBibFileRefs), the .bib keys (VerifyRefs)
    \* ---- VerifyRefs
    TexExists,     \* os.path.exists(TexFileName)
    AllowBibitems,
    TexFileRefs,   \* keys cited in the .tex file, as RefsScanCallback collected them
    BibItemRefs,   \* keys of the \bibitem entries of the .tex file
    Problems,
    Warnings,
    ReturnOK,
    \* ---- TrimBibFile
    Keep,          \* comment the unused records out (TRUE) or delete them (FALSE)
    CommentingOut,
    BraceCount,
    Changed,
    ParsedOK,
    Files,         \* the directory: file name -> whether it exists, and its lines
    \* ---- the main .tex file
    TexFile,       \* its lines, as VerifyRefs reads them for the directives
    Commands,      \* its commands, as the TexScanner hands them to a callback
    CmdNo,         \* number of commands handed over so far
    Scanned,       \* what a check has got from its scan of the .tex file
    \* ---- a second call of VerifyRefs
    Run,           \* 1 in the first call, 2 in the second
    FirstRun,      \* what the first call has reported and returned
    \* ---- AuthorScanCallback
    AuthorWords,   \* the words of the command it is called with
    Authors,       \* the author text being worked on
    RawAuthors,
    AccentNo,      \* position in Accents
    AList,         \* the text of each author
    AuthorNo,      \* number of authors worked through
    OrderWarning,
    AuthorList,    \* the names found, as 'Surname,~I.~J.'
    Notes

vars == <<pc, BatchMode, Printed, BibExists, Records, BibFile, LineNo, State,
          BibFileRefs, TexExists, AllowBibitems, TexFileRefs, BibItemRefs,
          Problems, Warnings, ReturnOK,
          Keep, CommentingOut, BraceCount, Changed, ParsedOK, Files, TexFile,
          Commands, CmdNo, Scanned, Run, FirstRun,
          AuthorWords, Authors, RawAuthors, AccentNo, AList, AuthorNo,
          OrderWarning, AuthorList, Notes>>

bibVars == <<BibExists, Records, BibFile, LineNo, State>>
refVars == <<TexExists, AllowBibitems, TexFileRefs, BibItemRefs, Problems,
             Warnings, ReturnOK>>
trimVars == <<Keep, CommentingOut, BraceCount, Changed, ParsedOK, Files>>

scanVars == <<Commands, CmdNo, Scanned>>

runVars == <<Run, FirstRun>>

\* the variables of the routines other than GetBibFileRefs and VerifyRefs
authorVars == <<AuthorWords, Authors, RawAuthors, AccentNo, AList, AuthorNo,
                OrderWarning, AuthorList, Notes>>

\* the variables of the routines other than GetBibFileRefs and VerifyRefs
restVars == <<trimVars, TexFile, scanVars, runVars, authorVars>>

\* the directory of the model
BibFileName == "adassXXVIreferences.bib"
BackupName == "adassXXVIreferences.bib.old"
ModBibFileNameIsBibFileName == "adassXXVIreferences.bib"
ModBibFileName == "oldReferences.bib"
FileNames == {BibFileName, BackupName, ModBibFileName}
NoFile == [exists |-> FALSE, lines |-> <<>>]
File(lines) == [exists |-> TRUE, lines |-> lines]

\* TrimBibFile is not running
TrimIdle ==
    /\ Keep = TRUE
    /\ CommentingOut = FALSE
    /\ BraceCount = 0
    /\ Changed = FALSE
    /\ ParsedOK = TRUE
    /\ Files = [n \in FileNames |-> NoFile]

\* no scan of the commands of the .tex file is running
ScanIdle ==
    /\ Commands = <<>>
    /\ CmdNo = 0
    /\ Scanned = <<>>

\* the first call of a routine
FirstCall ==
    /\ Run = 1
    /\ FirstRun = [Problems |-> <<>>, Warnings |-> <<>>, Printed |-> <<>>,
                   ReturnOK |-> TRUE]

\* AuthorScanCallback is not running
AuthorIdle ==
    /\ AuthorWords = <<>>
    /\ Authors = <<>>
    /\ RawAuthors = <<>>
    /\ AccentNo = 0
    /\ AList = <<>>
    /\ AuthorNo = 0
    /\ OrderWarning = FALSE
    /\ AuthorList = <<>>
    /\ Notes = <<>>

RestIdle == TrimIdle /\ ScanIdle /\ FirstCall /\ AuthorIdle

----------------------------------------------------------------------------
\* Bounds of the model

MaxRecords == 2     \* records in a .bib file
MaxDbRefs == 2      \* keys in the .bib key list given to VerifyRefs
MaxTexRefs == 2     \* cited keys
MaxBibItems == 1    \* \bibitem keys
MaxTexLines == 2    \* lines of the .tex file the directive check reads
MaxCommands == 2    \* commands of the .tex file
MaxScanned == 2     \* files in the directory, packages of the .tex file

SeqsUpTo(S, n) == UNION {[1..k -> S] : k \in 0..n}

----------------------------------------------------------------------------
\* Python string primitives

Whitespace == {" ", "\t", "\n", "\r"}

UpperLetters == <<"A","B","C","D","E","F","G","H","I","J","K","L","M",
                  "N","O","P","Q","R","S","T","U","V","W","X","Y","Z">>
LowerLetters == <<"a","b","c","d","e","f","g","h","i","j","k","l","m",
                  "n","o","p","q","r","s","t","u","v","w","x","y","z">>

LowerChar(c) ==
    IF \E i \in 1..Len(UpperLetters) : UpperLetters[i] = c
    THEN LowerLetters[CHOOSE i \in 1..Len(UpperLetters) : UpperLetters[i] = c]
    ELSE c

\* str.lower()
Lower(s) == [i \in 1..Len(s) |-> LowerChar(s[i])]

RECURSIVE LStripChars(_, _)
\* str.lstrip(chars)
LStripChars(s, chars) ==
    IF s = <<>> \/ Head(s) \notin chars THEN s ELSE LStripChars(Tail(s), chars)

RECURSIVE RStripChars(_, _)
\* str.rstrip(chars)
RStripChars(s, chars) ==
    IF s = <<>> \/ s[Len(s)] \notin chars THEN s
    ELSE RStripChars(SubSeq(s, 1, Len(s) - 1), chars)

\* str.lstrip()
LStrip(s) == LStripChars(s, Whitespace)

\* str.strip()
Strip(s) == RStripChars(LStripChars(s, Whitespace), Whitespace)

\* str.find(c) for a one-character c: the lowest 0-based index, or -1
Find(s, c) ==
    IF \E i \in 1..Len(s) : s[i] = c
    THEN (CHOOSE i \in 1..Len(s) : s[i] = c /\ \A j \in 1..(i - 1) : s[j] # c) - 1
    ELSE -1

\* str.startswith(c) for a one-character c
StartsWith(s, c) == Len(s) > 0 /\ s[1] = c

\* s[a:b] for 0 <= a, 0 <= b
Slice(s, a, b) ==
    LET hi == IF b > Len(s) THEN Len(s) ELSE b
    IN  IF a + 1 > hi THEN <<>> ELSE SubSeq(s, a + 1, hi)

\* s[a:] for 0 <= a
SliceFrom(s, a) == Slice(s, a, Len(s))

\* str.find(sub): the lowest 0-based index at which sub starts, or -1
FindStr(s, sub) ==
    LET At(i) == i + Len(sub) - 1 <= Len(s) /\ SubSeq(s, i, i + Len(sub) - 1) = sub
    IN  IF \E i \in 1..Len(s) : At(i)
        THEN (CHOOSE i \in 1..Len(s) : At(i) /\ \A j \in 1..(i - 1) : ~At(j)) - 1
        ELSE -1

\* os.path.splitext(name)[0] for a name without directories
SplitExtBase(name) ==
    LET dots == {i \in 2..Len(name) : name[i] = "." /\ \E j \in 1..(i - 1) : name[j] # "."}
    IN  IF dots = {} THEN name
        ELSE SubSeq(name, 1, (CHOOSE i \in dots : \A j \in dots : j <= i) - 1)

RECURSIVE Concat(_)
\* the concatenation of a sequence of sequences
Concat(ss) == IF ss = <<>> THEN <<>> ELSE Head(ss) \o Concat(Tail(ss))

Msg(text, ref) == [text |-> text, ref |-> ref]

----------------------------------------------------------------------------
\* GetBibFileRefs

NEED_AT == 0
NEED_BRACE == 1
NEED_COMMA == 2

ExpectedTypes ==
    { <<"a","r","t","i","c","l","e">>,
      <<"b","o","o","k">>,
      <<"b","o","o","k","l","e","t">>,
      <<"c","o","n","f","e","r","e","n","c","e">>,
      <<"i","n","b","o","o","k">>,
      <<"i","n","c","o","l","l","e","c","t","i","o","n">>,
      <<"i","n","p","r","o","c","e","e","d","i","n","g","s">>,
      <<"m","a","n","u","a","l">>,
      <<"m","a","s","t","e","r","s","t","h","e","s","i","s">>,
      <<"m","i","s","c">>,
      <<"p","h","d","t","h","e","s","i","s">>,
      <<"p","r","o","c","e","e","d","i","n","g","s">>,
      <<"t","e","c","h","r","e","p","o","r","t">>,
      <<"u","n","p","u","b","l","i","s","h","e","d">> }

UnexpectedEntry == "Unexpected .bib file entry - will default to 'MISC'"

\* A scanner that keeps its state on a line that starts with '@'
ResetOnAtNever(St, Line) == St

\* The reset of the scanner on a line that starts with '@'
ResetOnAt(St, Line) == IF StartsWith(Strip(Line), "@") THEN NEED_AT ELSE St

\* The NEED_AT branch: the line may hold the whole '@type{key,' start
ScanAtLine(Line) ==
    LET L     == RStripChars(Strip(Line), {"\r", "\n"})
        Brace == Find(L, "{")
        Comma == Find(L, ",")
        EntryType == IF Brace > 0 THEN Slice(L, 1, Brace) ELSE SliceFrom(L, 1)
        Unexpected == Strip(Lower(EntryType)) \notin ExpectedTypes
    IN  IF ~StartsWith(L, "@")
        THEN [State |-> NEED_AT, Refs |-> <<>>, Warn |-> <<>>]
        ELSE [State |-> IF Unexpected THEN NEED_AT
                        ELSE IF Brace > 0
                             THEN (IF Comma > 0 THEN NEED_AT ELSE NEED_COMMA)
                             ELSE NEED_BRACE,
              Refs  |-> IF Brace > 0 /\ Comma > 0
                        THEN <<Strip(Slice(L, Brace + 1, Comma))>>
                        ELSE <<>>,
              Warn  |-> IF Unexpected THEN <<Msg(UnexpectedEntry, EntryType)>>
                        ELSE <<>>]

\* The NEED_BRACE / NEED_COMMA branch: the brace or the key is on a later line
ScanRestLine(St, Line) ==
    LET Brace == Find(Line, "{")
        gotBrace == St = NEED_BRACE /\ Brace >= 0
        L1 == IF gotBrace THEN SliceFrom(Line, Brace + 1) ELSE Line
        S1 == IF gotBrace THEN NEED_COMMA ELSE St
        L2 == LStrip(L1)
        Comma == Find(L2, ",")
    IN  IF S1 = NEED_COMMA /\ Comma > 0
        THEN [State |-> NEED_AT, Refs |-> <<Strip(Slice(L2, 0, Comma))>>,
              Warn |-> <<>>]
        ELSE [State |-> S1, Refs |-> <<>>, Warn |-> <<>>]

\* One pass of the loop over the lines of the file
ScanLine(St, Line) ==
    LET S0 == ResetOnAt(St, Line)
    IN  IF S0 = NEED_AT THEN ScanAtLine(Line) ELSE ScanRestLine(S0, Line)

RECURSIVE ScanFrom(_, _)
\* The keys GetBibFileRefs returns for the lines of a file, from a scanner state
ScanFrom(St, Lines) ==
    IF Lines = <<>> THEN <<>>
    ELSE LET R == ScanLine(St, Head(Lines))
         IN  R.Refs \o ScanFrom(R.State, Tail(Lines))

ScanFile(Lines) == ScanFrom(NEED_AT, Lines)

\* ---- the .bib files of the model: sequences of records, each written in
\* ---- one of the layouts the scanner's comments name, or malformed

TypeMisc == <<"M","i","s","c">>
TypeOnline == <<"o","n","l","i","n","e">>
BibTypes == {TypeMisc, TypeOnline}
BibKeys == {<<"k","1">>, <<"k","2">>}

WellFormedLayouts == {"OneLine", "KeyNextLine", "BraceNextLine", "ThreeLines"}
MalformedLayouts == {"NoBrace", "NoComma", "NoCommaNextLine"}

BibRecords == [layout : WellFormedLayouts \cup MalformedLayouts,
               type : BibTypes, key : BibKeys, fields : BOOLEAN]

NL == <<"\n">>
FieldLines == << <<" ","t"," ","="," ","{","v",",","w","}",",","\n">>, <<"}","\n">> >>

HeaderLines(r) ==
    LET at == <<"@">> \o r.type
        ind == <<" "," ">>
    IN  CASE r.layout = "OneLine"       -> << at \o <<"{">> \o r.key \o <<",">> \o NL >>
          [] r.layout = "KeyNextLine"   -> << at \o <<"{">> \o NL,
                                              ind \o r.key \o <<",">> \o NL >>
          [] r.layout = "BraceNextLine" -> << at \o NL,
                                              ind \o <<"{">> \o r.key \o <<",">> \o NL >>
          [] r.layout = "ThreeLines"    -> << at \o NL, <<"{">> \o NL,
                                              ind \o r.key \o <<",">> \o NL >>
          [] r.layout = "NoBrace"       -> << at \o NL,
                                              ind \o r.key \o <<",">> \o NL >>
          [] r.layout = "NoComma"       -> << at \o <<"{">> \o r.key \o NL >>
          [] r.layout = "NoCommaNextLine" -> << at \o <<"{">> \o NL,
                                                ind \o r.key \o NL >>

RecordLines(r) == HeaderLines(r) \o (IF r.fields THEN FieldLines ELSE <<>>)

FileLines(rs) == Concat([i \in 1..Len(rs) |-> RecordLines(rs[i])])

\* The files of the model: the well-formed records of a file are written in
\* one style (all with their field lines, or all without), and the malformed
\* records all have the first key
BibFiles ==
    {rs \in SeqsUpTo(BibRecords, MaxRecords) :
        /\ \A i, j \in 1..Len(rs) :
              (rs[i].layout \in WellFormedLayouts /\ rs[j].layout \in WellFormedLayouts)
                  => rs[i].fields = rs[j].fields
        /\ \A i \in 1..Len(rs) :
              rs[i].layout \in MalformedLayouts => rs[i].key = <<"k","1">>}

InitBib ==
    /\ pc = "open"
    /\ BatchMode \in BOOLEAN
    /\ Printed = <<>>
    /\ BibExists \in BOOLEAN
    /\ Records \in BibFiles
    /\ BibExists = FALSE => Records = <<>>
    /\ BibFile = FileLines(Records)
    /\ LineNo = 0
    /\ State = NEED_AT
    /\ BibFileRefs = <<>>
    /\ TexExists = FALSE
    /\ AllowBibitems = FALSE
    /\ TexFileRefs = <<>>
    /\ BibItemRefs = <<>>
    /\ Problems = <<>>
    /\ Warnings = <<>>
    /\ ReturnOK = TRUE
    /\ RestIdle
    /\ TexFile = <<>>

\* os.path.exists(BibFileName) holds: open the file
OpenBibFile ==
    /\ pc = "open"
    /\ BibExists
    /\ pc' = "reading"
    /\ UNCHANGED <<BatchMode, Printed, bibVars, BibFileRefs, refVars, restVars>>

\* there is no such file: say so (interactive mode) and return the empty list
NoBibFile ==
    /\ pc = "open"
    /\ ~BibExists
    /\ Printed' = IF BatchMode THEN Printed
                  ELSE Append(Printed, Msg("No bib file found", <<>>))
    /\ pc' = "returned"
    /\ UNCHANGED <<BatchMode, bibVars, BibFileRefs, refVars, restVars>>

\* one iteration of  for BibFileLine in BibFile
ReadBibLine ==
    /\ pc = "reading"
    /\ LineNo < Len(BibFile)
    /\ LET R == ScanLine(State, BibFile[LineNo + 1])
       IN  /\ State' = R.State
           /\ BibFileRefs' = BibFileRefs \o R.Refs
           /\ Printed' = IF BatchMode THEN Printed ELSE Printed \o R.Warn
    /\ LineNo' = LineNo + 1
    /\ UNCHANGED <<pc, BatchMode, BibExists, Records, BibFile, refVars, restVars>>

\* end of file: close it and return BibFileRefs
CloseBibFile ==
    /\ pc = "reading"
    /\ LineNo = Len(BibFile)
    /\ pc' = "returned"
    /\ UNCHANGED <<BatchMode, Printed, bibVars, BibFileRefs, refVars, restVars>>

NextBib == OpenBibFile \/ NoBibFile \/ ReadBibLine \/ CloseBibFile

SpecBib == InitBib /\ [][NextBib]_vars

----------------------------------------------------------------------------
\* VerifyRefs

CannotFindTex == "Cannot find main .tex file"
DirectivesWrong == ".tex file directives may need correcting"
UsepackageFound == "** .tex file has \\usepackage{./asp2014} directive **"
BibliographyFound == "** Note: Tex file includes directive **"

\* BibFileName, character by character
BibFileNameText ==
    <<"a","d","a","s","s","X","X","V","I","r","e","f","e","r","e","n","c","e","s",
      ".","b","i","b">>
UsepackageAsp == <<"\\","u","s","e","p","a","c","k","a","g","e","{",".","/",
                   "a","s","p","2","0","1","4","}">>
BibliographyOpen == <<"\\","b","i","b","l","i","o","g","r","a","p","h","y","{">>

\* What the directive check prints for one line of the .tex file
DirectiveLine(Line) ==
    LET Index  == FindStr(Line, BibliographyOpen)
        Right  == Find(SliceFrom(Line, Index), "}")
        OldBib == Slice(Line, Index, Index + Right + 1)
        BibFileBase == SplitExtBase(BibFileNameText)
    IN  IF StartsWith(Line, "%") THEN <<>>
        ELSE (IF FindStr(Line, UsepackageAsp) >= 0
              THEN <<Msg(UsepackageFound, <<>>)>> ELSE <<>>)
             \o (IF /\ Index >= 0
                    /\ Right > 0
                    /\ OldBib # BibliographyOpen \o BibFileBase \o <<"}">>
                    /\ OldBib # BibliographyOpen \o BibFileNameText \o <<"}">>
                 THEN <<Msg(BibliographyFound, OldBib)>> ELSE <<>>)

\* the loop  for TexFileLine in TexFile  of the directive check
DirectiveNotes(Lines) == Concat([i \in 1..Len(Lines) |-> DirectiveLine(Lines[i])])
BibitemHeader == "Tex file has the following \\bibitem directives:"
BibitemListed == "\\bibitem directive"
BibitemsNeedReplacing == "These need to be replaced by a .bib file with BibTex entries"
BibNotUsed == "Bib file reference not used in .tex file"
BibUsedOtherCase == "Bib file reference used with different case in .tex file"
BibitemNotUsed == "\\bibitem reference not used in .tex file"
TexUndefined == ".tex file reference undefined"
TexDefinedOtherCase == ".tex file reference defined but with different case"
TexDefinedAsBibitem == ".tex file reference defined but as a \\bibitem entry"

RECURSIVE SearchFrom(_, _, _)
\* The inner loop of passes 1 and 3: look for Ref (stripped) in List; the first
\* entry equal to it, exactly or with case ignored, ends the search
SearchFrom(Ref, List, i) ==
    IF i > Len(List) THEN [Found |-> FALSE, CaseCheck |-> FALSE]
    ELSE LET Other == Strip(List[i])
         IN  IF Ref = Other THEN [Found |-> TRUE, CaseCheck |-> TRUE]
             ELSE IF Lower(Ref) = Lower(Other)
                  THEN [Found |-> TRUE, CaseCheck |-> FALSE]
                  ELSE SearchFrom(Ref, List, i + 1)

\* A search that knows exact equality only
SearchRefsExactOnly(Ref, List) ==
    LET Hit == \E i \in 1..Len(List) : Ref = Strip(List[i])
    IN  [Found |-> Hit, CaseCheck |-> Hit]

SearchRefs(Ref, List) == SearchFrom(Ref, List, 1)

RECURSIVE SearchBibItemsFrom(_, _, _)
\* The second inner loop of pass 3, over the \bibitem keys. The match with
\* case ignored assigns AsBibItem, not AsBibitem, so AsBibitem stays False
SearchBibItemsFrom(TexRef, List, i) ==
    IF i > Len(List)
    THEN [Found |-> FALSE, CaseCheck |-> FALSE, AsBibitem |-> FALSE]
    ELSE LET BibItem == Strip(List[i])
         IN  IF TexRef = BibItem
             THEN [Found |-> TRUE, CaseCheck |-> TRUE, AsBibitem |-> TRUE]
             ELSE IF Lower(TexRef) = Lower(BibItem)
                  THEN [Found |-> TRUE, CaseCheck |-> FALSE, AsBibitem |-> FALSE]
                  ELSE SearchBibItemsFrom(TexRef, List, i + 1)

SearchBibItems(TexRef, List) == SearchBibItemsFrom(TexRef, List, 1)

\* The inner loop of pass 2: exact equality only
UsedExactly(BibItem, List) ==
    \E i \in 1..Len(List) : BibItem = Strip(List[i])

\* Pass 1, one .bib key
Pass1Key(BibRef0, Cited) ==
    LET BibRef == Strip(BibRef0)
        R == SearchRefs(BibRef, Cited)
    IN  [Warnings |-> IF ~R.Found THEN <<Msg(BibNotUsed, BibRef)>> ELSE <<>>,
         Problems |-> IF R.Found /\ ~R.CaseCheck
                      THEN <<Msg(BibUsedOtherCase, BibRef)>> ELSE <<>>,
         Ok |-> R.Found]

\* Pass 2, one \bibitem key
Pass2Key(BibItem0, Cited) ==
    LET BibItem == Strip(BibItem0)
        Found == UsedExactly(BibItem, Cited)
    IN  [Warnings |-> <<>>,
         Problems |-> IF ~Found THEN <<Msg(BibitemNotUsed, BibItem)>> ELSE <<>>,
         Ok |-> Found]

\* The two searches of pass 3 for one cited key: the .bib keys first, the
\* \bibitem keys only if the .bib keys gave nothing
\* A pass 3 that never looks at the \bibitem keys
Pass3SearchBibFileOnly(TexRef, Db, Inline) ==
    LET B == SearchRefs(TexRef, Db)
    IN  [Found |-> B.Found, CaseCheck |-> B.CaseCheck, AsBibitem |-> FALSE]

Pass3Search(TexRef, Db, Inline) ==
    LET B == SearchRefs(TexRef, Db)
    IN  IF B.Found
        THEN [Found |-> TRUE, CaseCheck |-> B.CaseCheck, AsBibitem |-> FALSE]
        ELSE SearchBibItems(TexRef, Inline)

\* Pass 3, one cited key
Pass3Key(TexRef0, Db, Inline, Allow) ==
    LET TexRef == Strip(TexRef0)
        R == Pass3Search(TexRef, Db, Inline)
    IN  [Warnings |-> <<>>,
         Problems |->
            (IF ~R.Found THEN <<Msg(TexUndefined, TexRef)>> ELSE <<>>)
            \o (IF R.Found /\ ~R.CaseCheck
                THEN <<Msg(TexDefinedOtherCase, TexRef)>> ELSE <<>>)
            \o (IF R.Found /\ R.AsBibitem /\ ~Allow
                THEN <<Msg(TexDefinedAsBibitem, TexRef)>> ELSE <<>>),
         Ok |-> R.Found]

\* a pass that reports its first key only
PassProblemsFirstKey(outs) == IF outs = <<>> THEN <<>> ELSE outs[1].Problems

\* What a pass adds, given the outcome of each of its keys in order
PassProblems(outs) == Concat([i \in 1..Len(outs) |-> outs[i].Problems])
PassWarnings(outs) == Concat([i \in 1..Len(outs) |-> outs[i].Warnings])
PassPrinted(outs) ==
    Concat([i \in 1..Len(outs) |-> outs[i].Warnings \o outs[i].Problems])
PassAllOk(outs) == \A i \in 1..Len(outs) : outs[i].Ok

Pass1Outs == [i \in 1..Len(BibFileRefs) |-> Pass1Key(BibFileRefs[i], TexFileRefs)]
Pass2Outs == [i \in 1..Len(BibItemRefs) |-> Pass2Key(BibItemRefs[i], TexFileRefs)]
Pass3Outs == [i \in 1..Len(TexFileRefs) |->
                Pass3Key(TexFileRefs[i], BibFileRefs, BibItemRefs, AllowBibitems)]

\* The keys the model gives VerifyRefs. The .bib keys are what GetBibFileRefs
\* returns (stripped); cited and \bibitem keys may carry blanks
KeySm == <<"S","m">>
Keysm == <<"s","m">>
KeyJo == <<"J","o">>
DbKeyPool == {KeySm, Keysm, KeyJo}
TexKeyPool == {KeySm, Keysm, KeyJo, <<" ","s","m">>}
BibItemPool == {KeySm, <<"s","m"," ">>}

\* lines of a .tex file
BibliographyStandard ==
    BibliographyOpen \o SplitExtBase(BibFileNameText) \o <<"}","\n">>
BibliographyStandardBib == BibliographyOpen \o BibFileNameText \o <<"}","\n">>
BibliographyExample == BibliographyOpen \o <<"e","x","}","\n">>
BibliographyCommented == <<"%">> \o BibliographyExample
UsepackageLine == UsepackageAsp \o <<"\n">>
TextLine == <<"t","e","x","t","\n">>

InitRefs ==
    /\ pc = "start"
    /\ BatchMode \in BOOLEAN
    /\ Printed = <<>>
    /\ BibExists = TRUE
    /\ Records = <<>>
    /\ BibFile = <<>>
    /\ LineNo = 0
    /\ State = NEED_AT
    /\ BibFileRefs \in SeqsUpTo(DbKeyPool, MaxDbRefs)
    /\ TexExists \in BOOLEAN
    /\ AllowBibitems \in BOOLEAN
    /\ TexFileRefs \in SeqsUpTo(TexKeyPool, MaxTexRefs)
    /\ BibItemRefs \in SeqsUpTo(BibItemPool, MaxBibItems)
    /\ Problems = <<>>
    /\ Warnings = <<>>
    /\ ReturnOK = TRUE
    /\ RestIdle
    /\ TexFile \in (IF TexExists THEN {<<BibliographyStandard>>, <<BibliographyExample>>}
                                 ELSE {<<>>})

\* Batch mode appends diagnostics to the list given, interactive mode prints them
Report(list, msgs) == IF BatchMode THEN list \o msgs ELSE list
ToScreen(msgs) == IF BatchMode THEN Printed ELSE Printed \o msgs

\* The main .tex file is looked for; without it nothing else is checked
FindTexFile ==
    /\ pc = "start"
    /\ IF ~TexExists
       THEN /\ Problems' = Report(Problems, <<Msg(CannotFindTex, <<>>)>>)
            /\ Printed' = ToScreen(<<Msg(CannotFindTex, <<>>)>>)
            /\ ReturnOK' = FALSE
            /\ pc' = "done"
       ELSE /\ pc' = "directives"
            /\ UNCHANGED <<Problems, Printed, ReturnOK>>
    /\ UNCHANGED <<BatchMode, bibVars, restVars, BibFileRefs, TexExists, AllowBibitems,
                   TexFileRefs, BibItemRefs, Warnings>>

\* The \usepackage{./asp2014} and \bibliography{...} directives of the .tex
\* file are looked at in interactive mode only;
\* GetTexFileRefs is called next, and has something to do when the file has
\* commands
CheckDirectives ==
    /\ pc = "directives"
    /\ LET Said == DirectiveNotes(TexFile)
           Warn == Said # <<>>
       IN  IF ~BatchMode
           THEN /\ Printed' = Printed \o Said
                                \o (IF Warn THEN <<Msg(DirectivesWrong, <<>>)>>
                                    ELSE <<>>)
                /\ ReturnOK' = IF Warn THEN FALSE ELSE ReturnOK
           ELSE UNCHANGED <<Printed, ReturnOK>>
    /\ pc' = IF Commands # <<>> THEN "scanning" ELSE "bibitems"
    /\ UNCHANGED <<BatchMode, bibVars, restVars, BibFileRefs, TexExists, AllowBibitems,
                   TexFileRefs, BibItemRefs, Problems, Warnings>>

\* The \bibitem directives found by the scan are listed
ListBibItems ==
    /\ pc = "bibitems"
    /\ LET Listed == [i \in 1..Len(BibItemRefs) |->
                        Msg(BibitemListed, Strip(BibItemRefs[i]))]
       IN  IF Len(BibItemRefs) > 0
           THEN IF BatchMode
                THEN /\ Problems' = IF ~AllowBibitems
                                    THEN Problems \o <<Msg(BibitemHeader, <<>>)>>
                                                  \o Listed
                                    ELSE Problems
                     /\ UNCHANGED <<Printed, ReturnOK>>
                ELSE /\ Printed' = Printed \o Listed \o
                                   (IF ~AllowBibitems
                                    THEN <<Msg(BibitemsNeedReplacing, <<>>)>>
                                    ELSE <<>>)
                     /\ ReturnOK' = IF ~AllowBibitems THEN FALSE ELSE ReturnOK
                     /\ UNCHANGED Problems
           ELSE UNCHANGED <<Problems, Printed, ReturnOK>>
    /\ pc' = "pass1"
    /\ UNCHANGED <<BatchMode, bibVars, restVars, BibFileRefs, TexExists, AllowBibitems,
                   TexFileRefs, BibItemRefs, Warnings>>

\* Pass 1: is every .bib key cited?
Pass1 ==
    /\ pc = "pass1"
    /\ IF Len(BibFileRefs) = 0
       THEN UNCHANGED <<Problems, Warnings, Printed, ReturnOK>>
       ELSE /\ Problems' = Report(Problems, PassProblems(Pass1Outs))
            /\ Warnings' = Report(Warnings, PassWarnings(Pass1Outs))
            /\ Printed' = ToScreen(PassPrinted(Pass1Outs))
            /\ ReturnOK' = IF PassAllOk(Pass1Outs) THEN ReturnOK ELSE FALSE
    /\ pc' = "pass2"
    /\ UNCHANGED <<BatchMode, bibVars, restVars, BibFileRefs, TexExists, AllowBibitems,
                   TexFileRefs, BibItemRefs>>

\* Pass 2: is every \bibitem key cited?
Pass2 ==
    /\ pc = "pass2"
    /\ IF Len(BibItemRefs) > 0
       THEN /\ Problems' = Report(Problems, PassProblems(Pass2Outs))
            /\ Printed' = ToScreen(PassPrinted(Pass2Outs))
            /\ ReturnOK' = IF PassAllOk(Pass2Outs) THEN ReturnOK ELSE FALSE
       ELSE UNCHANGED <<Problems, Printed, ReturnOK>>
    /\ pc' = "pass3"
    /\ UNCHANGED <<BatchMode, bibVars, restVars, BibFileRefs, TexExists, AllowBibitems,
                   TexFileRefs, BibItemRefs, Warnings>>

\* Pass 3: is every cited key defined?
Pass3 ==
    /\ pc = "pass3"
    /\ IF Len(TexFileRefs) = 0
       THEN UNCHANGED <<Problems, Printed, ReturnOK>>
       ELSE /\ Problems' = Report(Problems, PassProblems(Pass3Outs))
            /\ Printed' = ToScreen(PassPrinted(Pass3Outs))
            /\ ReturnOK' = IF PassAllOk(Pass3Outs) THEN ReturnOK ELSE FALSE
    /\ pc' = "done"
    /\ UNCHANGED <<BatchMode, bibVars, restVars, BibFileRefs, TexExists, AllowBibitems,
                   TexFileRefs, BibItemRefs, Warnings>>

NextRefs == FindTexFile \/ CheckDirectives \/ ListBibItems \/ Pass1 \/ Pass2 \/ Pass3

SpecRefs == InitRefs /\ [][NextRefs]_vars

\* ---- VerifyRefs on .tex files with and without directives, few keys

TexLinePool == {BibliographyStandard, BibliographyStandardBib, BibliographyExample,
                BibliographyCommented, UsepackageLine, TextLine}

InitTex ==
    /\ pc = "start"
    /\ BatchMode \in BOOLEAN
    /\ Printed = <<>>
    /\ BibExists = TRUE
    /\ Records = <<>>
    /\ BibFile = <<>>
    /\ LineNo = 0
    /\ State = NEED_AT
    /\ BibFileRefs \in SeqsUpTo({KeySm}, 1)
    /\ TexExists = TRUE
    /\ AllowBibitems \in BOOLEAN
    /\ TexFileRefs \in SeqsUpTo({KeySm}, 1)
    /\ BibItemRefs = <<>>
    /\ Problems = <<>>
    /\ Warnings = <<>>
    /\ ReturnOK = TRUE
    /\ RestIdle
    /\ TexFile \in SeqsUpTo(TexLinePool, MaxTexLines)

SpecTex == InitTex /\ [][NextRefs]_vars

----------------------------------------------------------------------------
\* Properties of VerifyRefs (batch mode, the .tex file present)

RefsDone == pc = "done" /\ TexExists /\ BatchMode

Count(list, text, ref) ==
    Cardinality({i \in 1..Len(list) : list[i] = Msg(text, ref)})
Has(list, text, ref) == Count(list, text, ref) > 0
AnyOf(list, texts) == \E i \in 1..Len(list) : list[i].text \in texts

SameKey(a, b) == Strip(a) = Strip(b)
SameKeyNoCase(a, b) == Lower(Strip(a)) = Lower(Strip(b))
InExactly(k, list) == \E i \in 1..Len(list) : SameKey(k, list[i])
InNoCase(k, list) == \E i \in 1..Len(list) : SameKeyNoCase(k, list[i])
Occurrences(k, list) == Cardinality({i \in 1..Len(list) : SameKey(k, list[i])})
OccurrencesNoCase(k, list) ==
    Cardinality({i \in 1..Len(list) : SameKeyNoCase(k, list[i])})

PassProblemTexts == {BibUsedOtherCase, BibitemNotUsed, TexUndefined,
                     TexDefinedOtherCase, TexDefinedAsBibitem}

\* C1: VerifyRefs returns False whenever one of its three passes appended a
\* Problem or a .bib key was reported unused, and True when there is no Problem
\* and no unused-key Warning.
C1_ReturnFalseIffProblem ==
    RefsDone =>
        /\ (AnyOf(Problems, PassProblemTexts) \/ AnyOf(Warnings, {BibNotUsed}))
              => ReturnOK = FALSE
        /\ (Problems = <<>> /\ ~AnyOf(Warnings, {BibNotUsed}))
              => ReturnOK = TRUE

\* C2: when the cited keys are the .bib keys (same sequence, same case) and
\* there are no \bibitem keys, VerifyRefs returns True and appends no Problem.
C2_RoundTrip ==
    (RefsDone /\ BibFileRefs # <<>> /\ TexFileRefs = BibFileRefs
       /\ BibItemRefs = <<>>)
        => (ReturnOK = TRUE /\ Problems = <<>>)

\* A .bib key d and a cited key c that differ in case only, with nothing else
\* in any of the three lists equal to them even with case ignored
CaseMismatchOnly(d, c) ==
    /\ InExactly(d, BibFileRefs)
    /\ InExactly(c, TexFileRefs)
    /\ Strip(d) # Strip(c)
    /\ SameKeyNoCase(d, c)
    /\ OccurrencesNoCase(d, BibFileRefs) = 1
    /\ OccurrencesNoCase(c, TexFileRefs) = 1
    /\ ~InNoCase(d, BibItemRefs)

CaseMismatches ==
    {p \in DbKeyPool \X {Strip(k) : k \in TexKeyPool} : CaseMismatchOnly(p[1], p[2])}

DifferentCaseProblems(d) ==
    Cardinality({i \in 1..Len(Problems) :
                    /\ Problems[i].text \in {BibUsedOtherCase, TexDefinedOtherCase}
                    /\ SameKeyNoCase(Problems[i].ref, d)})

NoUnusedNorUndefined(d) ==
    /\ \A i \in 1..Len(Warnings) :
          ~(Warnings[i].text = BibNotUsed /\ SameKeyNoCase(Warnings[i].ref, d))
    /\ \A i \in 1..Len(Problems) :
          ~(Problems[i].text = TexUndefined /\ SameKeyNoCase(Problems[i].ref, d))

\* C3 as stated: a case-only mismatch between one .bib key and one cited key
\* gives exactly one 'different case' Problem over all passes, and no 'not
\* used' Warning and no 'undefined' Problem for the key.
C3_OneDifferentCaseProblem ==
    RefsDone =>
        \A p \in CaseMismatches :
            /\ DifferentCaseProblems(p[1]) = 1
            /\ NoUnusedNorUndefined(p[1])

\* C3 as amended: the mismatch is reported once by each of the two passes that
\* see it - pass 1 for the .bib key ('used with different case') and pass 3
\* for the cited key ('defined but with different case') - so exactly two
\* 'different case' Problems, and no 'not used' Warning and no 'undefined'
\* Problem for the key.
C3_DifferentCaseOncePerPass ==
    RefsDone =>
        \A p \in CaseMismatches :
            /\ Count(Problems, BibUsedOtherCase, p[1]) = 1
            /\ Count(Problems, TexDefinedOtherCase, p[2]) = 1
            /\ DifferentCaseProblems(p[1]) = 2
            /\ NoUnusedNorUndefined(p[1])

\* C3 witness: VerifyRefs has run on lists holding such a pair, and both
\* Problems are in the list.
C3_Witness ==
    /\ RefsDone
    /\ CaseMismatches # {}
    /\ \E p \in CaseMismatches :
          /\ Has(Problems, BibUsedOtherCase, p[1])
          /\ Has(Problems, TexDefinedOtherCase, p[2])

Defined(c) == InNoCase(c, BibFileRefs) \/ InNoCase(c, BibItemRefs)

\* the first entry of list equal to k with case ignored is k itself
FirstMatchIsExact(k, list) ==
    \E i \in 1..Len(list) :
        /\ SameKey(k, list[i])
        /\ \A j \in 1..(i - 1) : ~SameKeyNoCase(k, list[j])

\* C4: pass 3 appends the 'undefined' Problem for a cited key occurrence, and
\* makes the result False, iff no .bib key and no \bibitem key equals it even
\* with case ignored; the .bib keys are searched first (a key they match is
\* never reported as a \bibitem entry); and no occurrence is reported both
\* 'undefined' and 'different case'.
C4_UndefinedIffNoMatch ==
    RefsDone =>
        /\ \A j \in 1..Len(TexFileRefs) :
             LET c == Strip(TexFileRefs[j])
             IN  /\ Count(Problems, TexUndefined, c) =
                       (IF Defined(c) THEN 0 ELSE Occurrences(c, TexFileRefs))
                 /\ ~Defined(c) => ReturnOK = FALSE
                 /\ ~(Has(Problems, TexUndefined, c)
                        /\ Has(Problems, TexDefinedOtherCase, c))
                 /\ InNoCase(c, BibFileRefs)
                       => /\ ~Has(Problems, TexDefinedAsBibitem, c)
                          /\ Count(Problems, TexDefinedOtherCase, c) =
                               (IF FirstMatchIsExact(c, BibFileRefs) THEN 0
                                ELSE Occurrences(c, TexFileRefs))
        /\ (~AnyOf(Warnings, {BibNotUsed}) /\ ~AnyOf(Problems, {BibitemNotUsed}))
              => (ReturnOK = FALSE <=> AnyOf(Problems, {TexUndefined}))

\* C4 witness: a run in which one cited key is undefined and another is
\* matched by a .bib key with case ignored and by a \bibitem key exactly
C4_Witness ==
    /\ RefsDone
    /\ ~AllowBibitems
    /\ \E j \in 1..Len(TexFileRefs) :
          /\ ~Defined(TexFileRefs[j])
          /\ Has(Problems, TexUndefined, Strip(TexFileRefs[j]))
    /\ \E j \in 1..Len(TexFileRefs) :
          /\ InNoCase(TexFileRefs[j], BibFileRefs)
          /\ ~InExactly(TexFileRefs[j], BibFileRefs)
          /\ InExactly(TexFileRefs[j], BibItemRefs)
          /\ Has(Problems, TexDefinedOtherCase, Strip(TexFileRefs[j]))
    /\ ReturnOK = FALSE

\* C5: pass 1 appends, for each .bib key, the 'not used' Warning iff no cited
\* key equals it with case ignored, and the 'used with different case' Problem
\* iff some cited key equals it with case ignored and none equals it exactly,
\* whatever the order of the cited keys.
C5_Pass1ByMembership ==
    RefsDone =>
        \A i \in 1..Len(BibFileRefs) :
            LET d == Strip(BibFileRefs[i])
            IN  /\ Has(Warnings, BibNotUsed, d) <=> ~InNoCase(d, TexFileRefs)
                /\ Has(Problems, BibUsedOtherCase, d)
                      <=> (InNoCase(d, TexFileRefs) /\ ~InExactly(d, TexFileRefs))

\* C6: with AllowBibitems False, every cited key found only among the
\* \bibitem keys, exactly or with case ignored, gets the 'defined but as a
\* \bibitem entry' Problem.
C6_BibitemOnlyReported ==
    (RefsDone /\ ~AllowBibitems) =>
        \A j \in 1..Len(TexFileRefs) :
            LET c == Strip(TexFileRefs[j])
            IN  (~InNoCase(c, BibFileRefs) /\ InNoCase(c, BibItemRefs))
                    => Has(Problems, TexDefinedAsBibitem, c)

\* C7: pass 2 appends the '\bibitem reference not used' Problem for a \bibitem
\* key, and makes the result False, iff no cited key equals it even with case
\* ignored.
C7_BibitemUnusedNoCase ==
    RefsDone =>
        /\ \A i \in 1..Len(BibItemRefs) :
             LET b == Strip(BibItemRefs[i])
             IN  Has(Problems, BibitemNotUsed, b) <=> ~InNoCase(b, TexFileRefs)
        /\ (~AnyOf(Warnings, {BibNotUsed}) /\ ~AnyOf(Problems, {TexUndefined}))
              => (ReturnOK = FALSE
                    <=> \E i \in 1..Len(BibItemRefs) :
                           ~InNoCase(BibItemRefs[i], TexFileRefs))

----------------------------------------------------------------------------
\* Properties of GetBibFileRefs

WellFormed(r) == r.layout \in WellFormedLayouts
HeaderOnly(r) == ~r.fields
UnexpectedType(r) == Strip(Lower(r.type)) \notin ExpectedTypes
RecordKeys(rs) == [i \in 1..Len(rs) |-> rs[i].key]
AllWellFormed == \A i \in 1..Len(Records) : WellFormed(Records[i])
UnexpectedWarnings == SelectSeq(Printed, LAMBDA m : m.text = UnexpectedEntry)

\* C8: for every .bib file of N well-formed records (any of the four layouts),
\* GetBibFileRefs returns exactly the N keys of the records, in file order,
\* duplicates kept, and nothing taken from the field lines.
C8_WellFormedKeysInOrder ==
    (pc = "returned" /\ BibExists /\ AllWellFormed)
        => BibFileRefs = RecordKeys(Records)

\* The same, for files whose records all have one of the expected entry types:
\* this is what the code does guarantee.
WellFormedExpectedKeysInOrder ==
    (pc = "returned" /\ BibExists /\ AllWellFormed
       /\ \A i \in 1..Len(Records) : ~UnexpectedType(Records[i]))
        => BibFileRefs = RecordKeys(Records)

\* A malformed record made of its header lines only, directly followed by a
\* well-formed record
Recovered(rs, i) ==
    /\ i < Len(rs)
    /\ ~WellFormed(rs[i])
    /\ HeaderOnly(rs[i])
    /\ WellFormed(rs[i + 1])

RECURSIVE WithoutRecovered(_, _)
\* rs without the records Recovered names, from position i on
WithoutRecovered(rs, i) ==
    IF i > Len(rs) THEN <<>>
    ELSE (IF Recovered(rs, i) THEN <<>> ELSE <<rs[i]>>) \o WithoutRecovered(rs, i + 1)

\* C9: a line starting with '@' resets the scanner from any state, so the keys
\* returned for a file in which a malformed record (no '{', or no ',') is
\* directly followed by a well-formed record are exactly the keys returned for
\* the file without the malformed record.
C9_AtLineResetsScanner ==
    pc = "returned"
        => BibFileRefs = ScanFile(FileLines(WithoutRecovered(Records, 1)))

\* C9 witness: the scanner was left in NEED_COMMA or NEED_BRACE by a malformed
\* record, and the key of the well-formed record after it was returned.
C9_Witness ==
    /\ pc = "returned"
    /\ Len(Records) = 2
    /\ Recovered(Records, 1)
    /\ ScanFrom(NEED_AT, RecordLines(Records[1])) = <<>>
    /\ ~UnexpectedType(Records[1])
    /\ BibFileRefs = <<Records[2].key>>

\* C10: a record with an entry type outside the expected set gets the
\* 'will default to MISC' warning and its key is still returned, whether the
\* key is on the '@' line or on a following line.
C10_UnexpectedTypeKeyKept ==
    (pc = "returned" /\ AllWellFormed
       /\ \E i \in 1..Len(Records) : UnexpectedType(Records[i]))
        => /\ BibFileRefs = RecordKeys(Records)
           /\ ~BatchMode =>
                Len(UnexpectedWarnings) =
                    Cardinality({i \in 1..Len(Records) : UnexpectedType(Records[i])})

----------------------------------------------------------------------------
\* TrimBibFile

\* str.count(c) for a one-character c
CountChar(s, c) == Cardinality({i \in 1..Len(s) : s[i] = c})

\* str.replace('@', "_AT_")
ReplaceAt(s) ==
    Concat([i \in 1..Len(s) |-> IF s[i] = "@" THEN <<"_","A","T","_">> ELSE <<s[i]>>])

\* os.rename that leaves the directory as it was
RenameNothing(files, src, dst) == files

\* os.rename(src, dst): dst is replaced, src is gone
Rename(files, src, dst) == [files EXCEPT ![dst] = files[src], ![src] = NoFile]

\* os.unlink(name)
Unlink(files, name) == [files EXCEPT ![name] = NoFile]

\* open(name, mode='w'): the file is created, or truncated
OpenForWrite(files, name) == [files EXCEPT ![name] = File(<<>>)]

\* file.write(line)
WriteLine(files, name, line) ==
    [files EXCEPT ![name] = File(Append(files[name].lines, line))]

BlankName == "** Blank name in .bib file at line"
KeepingReference == "Keeping reference"
CommentingOutReference == "Commenting out unused reference"
CannotFindTexTrim == "Cannot find main .tex file"
ParseProblem == "** Problem parsing the file may mean an unused reference"

\* a trimmer that also takes a key cited in another case as used
RefUsedAnyCase(Ref, Refs) == \E i \in 1..Len(Refs) : Lower(Ref) = Lower(Strip(Refs[i]))

\* the loop  for TexFileRef in TexFileRefs  of the trimmer
RefUsed(Ref, Refs) == \E i \in 1..Len(Refs) : Ref = Strip(Refs[i])

\* a trimmer that takes no line as a comment
IsCommentLineNever(Line) == FALSE

\* BibFileLine.strip().startswith('%')
IsCommentLine(Line) == StartsWith(Strip(Line), "%")

\* One pass of the loop over the lines of the .bib file. S holds CommentingOut,
\* BraceCount, Changed and ParsedOK; the result also holds the line to write
\* (Out is empty when the line is not written) and what is printed
TrimLine(S, Line, Refs, keep) ==
    LET IsComment == IsCommentLine(Line)
        IsStart   == StartsWith(Strip(Line), "@")
        Brace     == Find(Line, "{")
        Comma     == Find(Line, ",")
        Ref       == Strip(IF Comma > 0 THEN Slice(Line, Brace + 1, Comma)
                                        ELSE SliceFrom(Line, Brace + 1))
        Blank     == Ref = <<>>
        Used      == Blank \/ RefUsed(Ref, Refs)
        Balance   == S.BraceCount + CountChar(Line, "{") - CountChar(Line, "}")
        Commented == <<"%">> \o ReplaceAt(Line)
        Plain(l)  == [CommentingOut |-> S.CommentingOut, BraceCount |-> S.BraceCount,
                      Changed |-> S.Changed, ParsedOK |-> S.ParsedOK,
                      Out |-> <<l>>, Says |-> <<>>]
    IN  IF IsComment THEN Plain(Line)
        ELSE IF S.CommentingOut
        THEN [CommentingOut |-> Balance > 0,
              BraceCount |-> IF Balance <= 0 THEN 0 ELSE Balance,
              Changed |-> S.Changed, ParsedOK |-> S.ParsedOK,
              Out |-> IF keep THEN << <<"%">> \o Line >> ELSE <<>>,
              Says |-> <<>>]
        ELSE IF ~(IsStart /\ Brace > 0) THEN Plain(Line)
        ELSE IF Used
        THEN [CommentingOut |-> FALSE, BraceCount |-> S.BraceCount,
              Changed |-> S.Changed, ParsedOK |-> S.ParsedOK /\ ~Blank,
              Out |-> <<Line>>,
              Says |-> (IF Blank THEN <<Msg(BlankName, <<>>)>> ELSE <<>>)
                       \o (IF RefUsed(Ref, Refs) THEN <<Msg(KeepingReference, Ref)>>
                           ELSE <<>>)]
        ELSE [CommentingOut |-> TRUE,
              BraceCount |-> CountChar(Commented, "{") - CountChar(Commented, "}"),
              Changed |-> TRUE, ParsedOK |-> S.ParsedOK,
              Out |-> IF keep THEN <<Commented>> ELSE <<>>,
              Says |-> <<Msg(CommentingOutReference, Ref)>>]

RECURSIVE ScanWarnFrom(_, _)
\* What GetBibFileRefs prints for the lines of a file
ScanWarnFrom(St, Lines) ==
    IF Lines = <<>> THEN <<>>
    ELSE LET R == ScanLine(St, Head(Lines))
         IN  R.Warn \o ScanWarnFrom(R.State, Tail(Lines))

\* ---- the .bib files the trimmer is given

TrimLayouts == {"Single", "Multi", "KeyNextLine"}
TrimRecords == [layout : TrimLayouts, key : BibKeys]

TrimRecordLines(r) ==
    LET at == <<"@">> \o TypeMisc \o <<"{">>
    IN  CASE r.layout = "Single" ->
                << at \o r.key \o <<","," ","t","=","{","v","}","}","\n">> >>
          [] r.layout = "Multi" ->
                << at \o r.key \o <<",">> \o NL >> \o FieldLines
          [] r.layout = "KeyNextLine" ->
                << at \o NL, <<" "," ">> \o r.key \o <<",">> \o NL >> \o FieldLines
          [] r.layout = "BraceNextLine" ->
                << <<"@">> \o TypeMisc \o NL, <<"{">> \o r.key \o <<",">> \o NL >>
                    \o FieldLines
          [] r.layout = "MultiPercent" ->
                << at \o r.key \o <<",">> \o NL, <<"%"," ","{">> \o NL >> \o FieldLines

TrimFileLines(rs) == Concat([i \in 1..Len(rs) |-> TrimRecordLines(rs[i])])

CitedPool == {<<"k","1">>, <<"k","2">>, <<" ","k","1">>}
StaleBackup == << <<"%","\n">> >>

InitTrim ==
    /\ pc = "trim_start"
    /\ BatchMode = FALSE
    /\ Printed = <<>>
    /\ BibExists \in BOOLEAN
    /\ Records \in SeqsUpTo(TrimRecords, MaxRecords)
    /\ BibExists = FALSE => Records = <<>>
    /\ BibFile = TrimFileLines(Records)
    /\ LineNo = 0
    /\ State = NEED_AT
    /\ BibFileRefs = <<>>
    /\ TexExists \in BOOLEAN
    /\ AllowBibitems = FALSE
    /\ TexFileRefs \in SeqsUpTo(CitedPool, MaxTexRefs)
    /\ BibItemRefs = <<>>
    /\ Problems = <<>>
    /\ Warnings = <<>>
    /\ ReturnOK = TRUE
    /\ Keep \in BOOLEAN
    /\ CommentingOut = FALSE
    /\ BraceCount = 0
    /\ Changed = FALSE
    /\ ParsedOK = TRUE
    /\ \E stale \in BOOLEAN :
          Files = [n \in FileNames |->
                     IF n = BibFileName /\ BibExists THEN File(BibFile)
                     ELSE IF n = BackupName /\ stale THEN File(StaleBackup)
                     ELSE NoFile]
    /\ TexFile = <<>>
    /\ ScanIdle
    /\ FirstCall
    /\ AuthorIdle

trimFrame == <<BatchMode, BibExists, Records, BibFile, State, TexExists,
               AllowBibitems, TexFileRefs, BibItemRefs, Problems, Warnings,
               ReturnOK, Keep, TexFile, scanVars, runVars, authorVars>>

\* FindBibFile, GetBibFileRefs and the list of the references found
TrimGetRefs ==
    /\ pc = "trim_start"
    /\ BibFileRefs' = IF BibExists THEN ScanFile(BibFile) ELSE <<>>
    /\ Printed' = Printed
                  \o (IF BibExists THEN <<Msg("Using standard .bib file", <<>>)>>
                      ELSE <<>>)
                  \o (IF BibExists THEN ScanWarnFrom(NEED_AT, BibFile)
                      ELSE <<Msg("No bib file found", <<>>)>>)
                  \o <<Msg("References in", <<>>)>>
                  \o [i \in 1..Len(BibFileRefs') |-> Msg("   ", BibFileRefs'[i])]
    /\ pc' = IF Len(BibFileRefs') > 0 THEN "trim_tex" ELSE "trim_done"
    /\ UNCHANGED <<trimFrame, LineNo, CommentingOut, BraceCount, Changed,
                   ParsedOK, Files>>

\* the main .tex file is not there
TrimNoTex ==
    /\ pc = "trim_tex"
    /\ ~TexExists
    /\ Printed' = Append(Printed, Msg(CannotFindTexTrim, <<>>))
    /\ pc' = "trim_done"
    /\ UNCHANGED <<trimFrame, BibFileRefs, LineNo, CommentingOut, BraceCount,
                   Changed, ParsedOK, Files>>

\* GetTexFileRefs, then the .bib file is opened and the staging file created
TrimOpen ==
    /\ pc = "trim_tex"
    /\ TexExists
    /\ Files' = OpenForWrite(Files, ModBibFileName)
    /\ Changed' = FALSE
    /\ CommentingOut' = FALSE
    /\ BraceCount' = 0
    /\ LineNo' = 0
    /\ pc' = "trim_loop"
    /\ UNCHANGED <<trimFrame, BibFileRefs, Printed, ParsedOK>>

\* one iteration of  for BibFileLine in BibFile
TrimReadLine ==
    /\ pc = "trim_loop"
    /\ LineNo < Len(BibFile)
    /\ LET R == TrimLine([CommentingOut |-> CommentingOut, BraceCount |-> BraceCount,
                          Changed |-> Changed, ParsedOK |-> ParsedOK],
                         BibFile[LineNo + 1], TexFileRefs, Keep)
       IN  /\ CommentingOut' = R.CommentingOut
           /\ BraceCount' = R.BraceCount
           /\ Changed' = R.Changed
           /\ ParsedOK' = R.ParsedOK
           /\ Printed' = Printed \o R.Says
           /\ Files' = IF R.Out = <<>> THEN Files
                       ELSE WriteLine(Files, ModBibFileName, R.Out[1])
    /\ LineNo' = LineNo + 1
    /\ UNCHANGED <<pc, trimFrame, BibFileRefs>>

\* end of the .bib file: both files are closed
TrimClose ==
    /\ pc = "trim_loop"
    /\ LineNo = Len(BibFile)
    /\ pc' = IF Changed THEN "trim_rename_old" ELSE "trim_unlink"
    /\ UNCHANGED <<trimFrame, BibFileRefs, Printed, LineNo, CommentingOut,
                   BraceCount, Changed, ParsedOK, Files>>

\* os.rename(BibFileName, BibFileName + ".old")
TrimRenameOld ==
    /\ pc = "trim_rename_old"
    /\ Files' = Rename(Files, BibFileName, BackupName)
    /\ pc' = "trim_rename_new"
    /\ UNCHANGED <<trimFrame, BibFileRefs, Printed, LineNo, CommentingOut,
                   BraceCount, Changed, ParsedOK>>

\* os.rename(ModBibFileName, BibFileName)
TrimRenameNew ==
    /\ pc = "trim_rename_new"
    /\ Files' = Rename(Files, ModBibFileName, BibFileName)
    /\ pc' = "trim_report"
    /\ UNCHANGED <<trimFrame, BibFileRefs, Printed, LineNo, CommentingOut,
                   BraceCount, Changed, ParsedOK>>

\* nothing was changed: os.unlink(ModBibFileName)
TrimUnlink ==
    /\ pc = "trim_unlink"
    /\ Files' = Unlink(Files, ModBibFileName)
    /\ pc' = "trim_report"
    /\ UNCHANGED <<trimFrame, BibFileRefs, Printed, LineNo, CommentingOut,
                   BraceCount, Changed, ParsedOK>>

\* the closing message about a parsing problem
TrimReport ==
    /\ pc = "trim_report"
    /\ Printed' = IF ParsedOK THEN Printed
                  ELSE Append(Printed, Msg(ParseProblem, <<>>))
    /\ pc' = "trim_done"
    /\ UNCHANGED <<trimFrame, BibFileRefs, LineNo, CommentingOut, BraceCount,
                   Changed, ParsedOK, Files>>

NextTrim ==
    \/ TrimGetRefs \/ TrimNoTex \/ TrimOpen \/ TrimReadLine \/ TrimClose
    \/ TrimRenameOld \/ TrimRenameNew \/ TrimUnlink \/ TrimReport

SpecTrim == InitTrim /\ [][NextTrim]_vars

----------------------------------------------------------------------------
\* Properties of TrimBibFile

\* the record's key is one of the cited keys
Cited(r) == \E i \in 1..Len(TexFileRefs) : r.key = Strip(TexFileRefs[i])

\* the record's key is on its '@' line
KeyOnStartLine(r) == r.layout \in {"Single", "Multi"}

\* the lines of a record, each behind a '%', the '@' written as '_AT_'
CommentedOut(r) ==
    LET ls == TrimRecordLines(r)
    IN  [i \in 1..Len(ls) |->
            IF i = 1 THEN <<"%","_","A","T","_">> \o Tail(ls[i])
            ELSE <<"%">> \o ls[i]]

\* what the trimmed file holds if each record is treated on its own
TrimmedByRecord ==
    Concat([i \in 1..Len(Records) |->
              IF Cited(Records[i]) THEN TrimRecordLines(Records[i])
              ELSE IF Keep THEN CommentedOut(Records[i])
              ELSE <<>>])

\* the whole .bib file has been read and the staging file is closed
PassDone == pc \in {"trim_rename_old", "trim_unlink"}

\* C11: once the pass over a .bib file whose records all have their key on the
\* '@' line is over, the staged output holds the lines of every cited record
\* unchanged and the lines of every uncited record commented out (Keep) or
\* not at all (delete mode)
C11_TrimmedRecordByRecord ==
    (PassDone /\ \A i \in 1..Len(Records) : KeyOnStartLine(Records[i]))
        => Files[ModBibFileName].lines = TrimmedByRecord

\* C12: when TrimBibFile is over and nothing was changed, the .bib file is what
\* it was, no backup of it has been made and the staging file is gone; when
\* something was changed, the backup holds the content the .bib file had and
\* the .bib file got, in the last step, the content of the staging file
C12_EndState ==
    /\ [](pc = "trim_done" =>
            IF Changed
            THEN /\ Files[BackupName] = File(BibFile)
                 /\ Files[BibFileName].exists
            ELSE /\ Files[BibFileName] = (IF BibExists THEN File(BibFile) ELSE NoFile)
                 /\ Files[BackupName] \in {NoFile, File(StaleBackup)}
                 /\ ~Files[ModBibFileName].exists)
    /\ [][(pc' = "trim_report" /\ Changed)
            => (Files[ModBibFileName].exists
                /\ Files'[BibFileName] = Files[ModBibFileName])]_vars

\* a run that changed the file is over: backup and new .bib file are in place
C12_Witness ==
    /\ pc = "trim_done"
    /\ Changed
    /\ Files[BackupName] = File(BibFile)
    /\ Files[BibFileName].lines # BibFile

\* C13 as stated: whenever there is a .bib file, at every point of TrimBibFile
\* its name exists and holds the complete old content or (after the swap) the
\* new content, and the old content is still in the directory
C13_AtomicSwap ==
    BibExists =>
        /\ Files[BibFileName].exists
        /\ \/ Files[BibFileName] = File(BibFile)
           \/ pc \in {"trim_report", "trim_done"} /\ Changed
        /\ \/ Files[BibFileName] = File(BibFile)
           \/ Files[BackupName] = File(BibFile)

\* C13, amended: the .bib file name holds the complete old content until the
\* pass is over; it then is replaced in two steps, between which the name
\* refers to nothing while the backup holds the old content; the content it
\* gets is that of the closed staging file, and the old content is never lost
C13_SwapAfterFullPass ==
    /\ [](BibExists =>
            \/ Files[BibFileName] = File(BibFile)
            \/ /\ pc = "trim_rename_new"
               /\ ~Files[BibFileName].exists
               /\ Files[BackupName] = File(BibFile)
            \/ /\ pc \in {"trim_report", "trim_done"}
               /\ Changed
               /\ Files[BibFileName].exists
               /\ Files[BackupName] = File(BibFile))
    /\ [][Files'[BibFileName] # Files[BibFileName]
            => /\ pc \in {"trim_rename_old", "trim_rename_new"}
               /\ LineNo = Len(BibFile)
               /\ \/ Files'[BibFileName] = NoFile
                  \/ Files'[BibFileName] = Files[ModBibFileName]]_vars

\* between the two renames
C13_Witness ==
    /\ pc = "trim_rename_new"
    /\ ~Files[BibFileName].exists
    /\ Files[BackupName] = File(BibFile)
    /\ Files[ModBibFileName].exists

\* the line that the next pass of the loop reads
ThisLine == BibFile[LineNo + 1]

\* a pass of the loop over the lines of the .bib file
ReadsLine == pc = "trim_loop" /\ LineNo' = LineNo + 1

\* the pass prints 'Commenting out unused reference': the line starts an
\* uncited record
StartsUncited ==
    /\ Len(Printed') = Len(Printed) + 1
    /\ Printed'[Len(Printed')].text = CommentingOutReference

\* the '{' minus '}' balance of the record being commented out, this line
\* included, counted from zero at the start line of the record
RecordBalance ==
    (IF StartsUncited THEN 0 ELSE BraceCount)
        + CountChar(ThisLine, "{") - CountChar(ThisLine, "}")

\* C23: the commenting state entered on the start line of an uncited record
\* ends at the first line, the start line included, at which the balance of
\* '{' and '}' of the record, counted from zero at its start line, is zero or
\* negative: after each line of the record the state is on exactly if the
\* balance is positive
C23_CommentingEndsAtBalance ==
    [][(ReadsLine
        /\ (StartsUncited \/ (CommentingOut /\ ~StartsWith(Strip(ThisLine), "%"))))
            => (CommentingOut' <=> RecordBalance > 0)]_vars

----------------------------------------------------------------------------
\* TrimBibFile on .bib files that also have records with the '{' on the line
\* after the '@' line and records with a comment line in them, and with keys
\* cited in another case

KeyK1 == <<"k","1">>
KeyK1Upper == <<"K","1">>
MoreRecords ==
    [layout : {"Single", "Multi", "KeyNextLine", "BraceNextLine", "MultiPercent"},
     key : {KeyK1}]
    \cup {[layout |-> "Single", key |-> <<"k","2">>]}
CasePool == {KeyK1, KeyK1Upper, <<" ","k","1">>}

InitTrimLines ==
    /\ pc = "trim_start"
    /\ BatchMode = FALSE
    /\ Printed = <<>>
    /\ BibExists = TRUE
    /\ Records \in SeqsUpTo(MoreRecords, MaxRecords)
    /\ BibFile = TrimFileLines(Records)
    /\ LineNo = 0
    /\ State = NEED_AT
    /\ BibFileRefs = <<>>
    /\ TexExists \in BOOLEAN
    /\ AllowBibitems = FALSE
    /\ TexFileRefs \in SeqsUpTo(CasePool, MaxTexRefs)
    /\ BibItemRefs = <<>>
    /\ Problems = <<>>
    /\ Warnings = <<>>
    /\ ReturnOK = TRUE
    /\ Keep \in BOOLEAN
    /\ CommentingOut = FALSE
    /\ BraceCount = 0
    /\ Changed = FALSE
    /\ ParsedOK = TRUE
    /\ Files = [n \in FileNames |-> IF n = BibFileName THEN File(BibFile) ELSE NoFile]
    /\ TexFile = <<>>
    /\ ScanIdle
    /\ FirstCall
    /\ AuthorIdle

SpecTrimLines == InitTrimLines /\ [][NextTrim]_vars

\* the lines of the staging file
Staged == Files[ModBibFileName].lines

RECURSIVE OwnerFrom(_, _)
\* the record of rs that line n of the lines of rs belongs to
OwnerFrom(rs, n) ==
    IF n <= Len(TrimRecordLines(Head(rs))) THEN Head(rs)
    ELSE OwnerFrom(Tail(rs), n - Len(TrimRecordLines(Head(rs))))

\* the record that the line read by the next pass of the loop belongs to
ThisRecord == OwnerFrom(Records, LineNo + 1)

\* the key of the record is not on its '@' line, or not behind a '{' there
KeyNotIsolated(r) == r.layout \in {"KeyNextLine", "BraceNextLine"}

\* the pass prints the message about a blank name
FlagsBlankName ==
    \E i \in (Len(Printed) + 1)..Len(Printed') : Printed'[i].text = BlankName

\* C28: every line of a record whose key is on the line after '@type{', or
\* whose '{' is on the line after the '@' line, is written unchanged to the
\* staged output in both modes, and the line '@type{' is flagged with the
\* message about a blank name
C28_UnisolatedKeyKept ==
    [][(ReadsLine /\ KeyNotIsolated(ThisRecord))
         => /\ Files'[ModBibFileName].lines = Append(Staged, ThisLine)
            /\ (ThisRecord.layout = "KeyNextLine" /\ Head(ThisLine) = "@")
                  => FlagsBlankName]_vars

RECURSIVE IsSubsequence(_, _)
\* the lines of a are lines of b, in the order they have in b
IsSubsequence(a, b) ==
    IF a = <<>> THEN TRUE
    ELSE IF b = <<>> THEN FALSE
    ELSE IF Head(a) = Head(b) THEN IsSubsequence(Tail(a), Tail(b))
    ELSE IsSubsequence(a, Tail(b))

\* the forms in which comment mode writes a line: unchanged, behind a '%',
\* or, a line that begins with '@', behind a '%' with '_AT_' for the '@'
ConservedLine(Out, Line) ==
    \/ Out = Line
    \/ /\ ~StartsWith(Strip(Line), "%")
       /\ \/ Out = <<"%">> \o Line
          \/ Head(Line) = "@" /\ Out = <<"%","_","A","T","_">> \o Tail(Line)

ReportedOtherCase(key) ==
    \E i \in 1..Len(BibFileRefs) :
        /\ Strip(BibFileRefs[i]) = key
        /\ Pass1Key(BibFileRefs[i], TexFileRefs).Problems = <<Msg(BibUsedOtherCase, key)>>

\* pass 1 of VerifyRefs finds the key used
FoundUsed(key) ==
    \E i \in 1..Len(BibFileRefs) :
        /\ Strip(BibFileRefs[i]) = key
        /\ Pass1Key(BibFileRefs[i], TexFileRefs).Ok

\* the pass of the loop does not write its line as it is: the line is
\* commented out or deleted
Removes == Files'[ModBibFileName].lines # Append(Staged, ThisLine)

\* a cited key is the key up to blanks around it; up to blanks and case
CitedExactly(key) == \E i \in 1..Len(TexFileRefs) : Strip(TexFileRefs[i]) = key
CitedAnyCase(key) ==
    \E i \in 1..Len(TexFileRefs) : Lower(Strip(TexFileRefs[i])) = Lower(key)

\* the pass prints that it keeps, or comments out, the reference: it has
\* tested the key of a start line
SaysOfKey(text) ==
    \E i \in (Len(Printed) + 1)..Len(Printed') : Printed'[i].text = text

----------------------------------------------------------------------------
\* Properties of the directive check of VerifyRefs

\* a line of the .tex file, not commented out, has a \bibliography{...}
\* directive that names another file than the .bib file used
BibliographyMismatch == \E i \in 1..Len(TexFile) : TexFile[i] = BibliographyExample

\* C14: when the .tex file has a \bibliography{...} directive that does not
\* name the .bib file used, VerifyRefs returns False, and in batch mode the
\* Problems list holds a diagnostic about the directive
C14_MismatchIsProblem ==
    (pc = "done" /\ TexExists /\ BibliographyMismatch)
        => /\ ReturnOK = FALSE
           /\ BatchMode =>
                \E i \in 1..Len(Problems) :
                    Problems[i].text \in {BibliographyFound, DirectivesWrong}

----------------------------------------------------------------------------
\* RefsScanCallback, and GetTexFileRefs that calls it for every command

\* an argument that keeps its braces
KeepBraces(s) == s

\* str.strip("{}")
StripBraces(s) == RStripChars(LStripChars(s, {"{", "}"}), {"{", "}"})

RECURSIVE SplitOn(_, _)
\* str.split(c) for a one-character c
SplitOn(s, c) ==
    LET i == Find(s, c)
    IN  IF i < 0 THEN <<s>> ELSE <<Slice(s, 0, i)>> \o SplitOn(SliceFrom(s, i + 1), c)

RECURSIVE JoinWith(_, _)
\* sep.join(ss)
JoinWith(ss, sep) ==
    IF ss = <<>> THEN <<>>
    ELSE IF Len(ss) = 1 THEN ss[1]
    ELSE ss[1] \o sep \o JoinWith(Tail(ss), sep)

RECURSIVE ExtractRefs(_)
\* The first argument in braces, without the braces ("" if there is none);
\* called with Words[1:]
ExtractRefs(Args) ==
    IF Args = <<>> THEN <<>>
    ELSE IF StartsWith(Head(Args), "{") THEN StripBraces(Head(Args))
    ELSE ExtractRefs(Tail(Args))

Cite == <<"\\","c","i","t","e">>
Bibitem == <<"\\","b","i","b","i","t","e","m">>
LowerCaseOptions ==
    {<<"t">>, <<"p">>, <<"t","*">>, <<"p","*">>, <<"a","l","t">>,
     <<"a","l","t","*">>, <<"a","l","p">>, <<"a","l","p","*">>,
     <<"n","u","m">>, <<"a","u","t","h","o","r">>,
     <<"a","u","t","h","o","r","*">>, <<"y","e","a","r">>,
     <<"y","e","a","r","p","a","r">>,
     <<"f","u","l","l","a","u","t","h","o","r">>}
UpperCaseOptions ==
    {<<"t">>, <<"p">>, <<"t","*">>, <<"p","*">>, <<"a","l","t">>,
     <<"a","l","t","*">>, <<"a","l","p">>, <<"a","l","p","*">>,
     <<"a","u","t","h","o","r">>, <<"a","u","t","h","o","r","*">>}

NoteUseOfCite == "Note use of \\cite for reference in .tex file"
NoteUseOf == "Note: use of in .tex file"
NoReferenceList == "Note: no reference list in"

\* a \cite command that is never taken as the bare one
IsBareCiteNever(Word) == FALSE

\* len(Words[0]) == 5 for a word that begins with \cite
IsBareCite(Word) == Len(Word) = 5

\* What one call of RefsScanCallback adds to TexFileRefs and to BibItemRefs,
\* and the diagnostics it reports
RefsScanCallback(Words) ==
    LET Word   == Words[1]
        Refs   == ExtractRefs(Tail(Words))
        Option == SliceFrom(Word, 5)
        Match  == IF Word[2] = "c"
                  THEN IsBareCite(Word) \/ Option \in LowerCaseOptions
                  ELSE Len(Word) > 5 /\ Option \in UpperCaseOptions
        Nothing == [TexFileRefs |-> <<>>, BibItemRefs |-> <<>>, Notes |-> <<>>]
    IN  IF Len(Words) = 0 THEN Nothing
        ELSE IF Lower(Slice(Word, 0, 5)) = Cite
        THEN [TexFileRefs |-> IF Match /\ Refs # <<>> THEN SplitOn(Refs, ",") ELSE <<>>,
              BibItemRefs |-> <<>>,
              Notes |->
                 (IF Word[2] = "c" /\ IsBareCite(Word)
                  THEN <<Msg(NoteUseOfCite, Refs)>> ELSE <<>>)
                 \o (IF ~Match THEN <<Msg(NoteUseOf, JoinWith(Words, <<" ">>))>>
                     ELSE IF Refs = <<>>
                     THEN <<Msg(NoReferenceList, JoinWith(Words, <<" ">>))>>
                     ELSE <<>>)]
        ELSE IF Word = Bibitem
        THEN [TexFileRefs |-> <<>>,
              BibItemRefs |-> IF Refs # <<>> THEN <<StripBraces(Refs)>> ELSE <<>>,
              Notes |-> IF Refs # <<>> THEN <<>>
                        ELSE <<Msg(NoReferenceList, JoinWith(Words, <<" ">>))>>]
        ELSE Nothing

\* ---- the commands of the model: a command name, perhaps an optional
\* ---- argument, and perhaps a list of keys in braces

KeyJones == <<"J","o">>
ArgPool ==
    {[braces |-> FALSE, keys |-> <<>>, sep |-> <<",">>, opt |-> FALSE],
     [braces |-> TRUE,  keys |-> <<>>, sep |-> <<",">>, opt |-> FALSE],
     [braces |-> TRUE,  keys |-> <<KeySm>>, sep |-> <<",">>, opt |-> FALSE],
     [braces |-> TRUE,  keys |-> <<KeySm>>, sep |-> <<",">>, opt |-> TRUE],
     [braces |-> TRUE,  keys |-> <<KeySm, KeyJones>>, sep |-> <<",">>, opt |-> FALSE],
     [braces |-> TRUE,  keys |-> <<KeySm, KeyJones>>, sep |-> <<","," ">>, opt |-> FALSE]}
AllowedNames == {Cite \o <<"p">>, <<"\\","C","i","t","e","t">>}
CapCite == <<"\\","C","i","t","e">>
OtherNames == {Cite, Cite \o <<"t","e","x","t">>, CapCite, Bibitem,
               <<"\\","r","e","f">>, <<"\\","C","I","T","E","p">>}
CommandPool == [name : AllowedNames \cup OtherNames, arg : ArgPool]

\* the words the scanner makes of a command
WordsOf(c) ==
    <<c.name>>
    \o (IF c.arg.opt THEN << <<"[","x","]">> >> ELSE <<>>)
    \o (IF c.arg.braces
        THEN << <<"{">> \o JoinWith(c.arg.keys, c.arg.sep) \o <<"}">> >> ELSE <<>>)

InitScan ==
    /\ pc = "scanning"
    /\ BatchMode \in BOOLEAN
    /\ Printed = <<>>
    /\ BibExists = FALSE
    /\ Records = <<>>
    /\ BibFile = <<>>
    /\ LineNo = 0
    /\ State = NEED_AT
    /\ BibFileRefs = <<>>
    /\ TexExists = TRUE
    /\ AllowBibitems = FALSE
    /\ TexFileRefs = <<>>
    /\ BibItemRefs = <<>>
    /\ Problems = <<>>
    /\ Warnings = <<>>
    /\ ReturnOK = TRUE
    /\ TrimIdle
    /\ TexFile = <<>>
    /\ Commands \in SeqsUpTo(CommandPool, MaxCommands)
    /\ CmdNo = 0
    /\ Scanned = <<>>
    /\ FirstCall
    /\ AuthorIdle

scanFrame == <<BatchMode, bibVars, BibFileRefs, TexExists, AllowBibitems, Warnings,
               ReturnOK, trimVars, TexFile, Commands, Scanned, runVars, authorVars>>

\* GetNextTexCommand finds a command and calls RefsScanCallback with its words
ScanCommand ==
    /\ pc = "scanning"
    /\ CmdNo < Len(Commands)
    /\ LET R == RefsScanCallback(WordsOf(Commands[CmdNo + 1]))
       IN  /\ TexFileRefs' = TexFileRefs \o R.TexFileRefs
           /\ BibItemRefs' = BibItemRefs \o R.BibItemRefs
           /\ Problems' = Report(Problems, R.Notes)
           /\ Printed' = ToScreen(R.Notes)
    /\ CmdNo' = CmdNo + 1
    /\ UNCHANGED <<pc, scanFrame>>

\* GetNextTexCommand finds no further command: the file is closed
ScanFinished ==
    /\ pc = "scanning"
    /\ CmdNo = Len(Commands)
    /\ pc' = "scanned"
    /\ UNCHANGED <<scanFrame, CmdNo, TexFileRefs, BibItemRefs, Problems, Printed>>

NextScan == ScanCommand \/ ScanFinished

SpecScan == InitScan /\ [][NextScan]_vars

----------------------------------------------------------------------------
\* Properties of RefsScanCallback

\* the command RefsScanCallback is called with in the step from this state
ThisCommand == Commands[CmdNo + 1]
Scanning == pc = "scanning" /\ CmdNo < Len(Commands)

\* the diagnostics the step has added, to Problems or to the screen
NewNotes ==
    IF BatchMode THEN SubSeq(Problems', Len(Problems) + 1, Len(Problems'))
    ELSE SubSeq(Printed', Len(Printed) + 1, Len(Printed'))

\* the entries the step has added to the cited keys
NewTexFileRefs == SubSeq(TexFileRefs', Len(TexFileRefs) + 1, Len(TexFileRefs'))

\* the text between the braces of the command
KeyList(c) == JoinWith(c.arg.keys, c.arg.sep)

\* C15: a call of RefsScanCallback with a bare \cite reports a diagnostic
\* that quotes the key list of the command, and adds one entry to the cited
\* keys for each key of the list, which is that key up to blanks around it
C15_BareCiteDiagnosedAndKept ==
    [][(Scanning /\ ThisCommand.name = Cite)
         => /\ \E i \in 1..Len(NewNotes) :
                  NewNotes[i] = Msg(NoteUseOfCite, KeyList(ThisCommand))
            /\ Len(NewTexFileRefs) = Len(ThisCommand.arg.keys)
            /\ \A i \in 1..Len(NewTexFileRefs) :
                  Strip(NewTexFileRefs[i]) = ThisCommand.arg.keys[i]]_vars

\* a bare \cite with two keys has been scanned and its keys are kept
C15_Witness ==
    /\ CmdNo >= 1
    /\ Commands[CmdNo].name = Cite
    /\ Len(Commands[CmdNo].arg.keys) = 2
    /\ Len(TexFileRefs) >= 2
    /\ Len(Problems) + Len(Printed) >= 1

\* the name begins with exactly \cite or \Cite
CitationPrefixed(name) == Slice(name, 0, 5) \in {Cite, CapCite}

\* the name is \cite or \Cite followed by an option of its family
AllowedVariant(name) ==
    \/ Slice(name, 0, 5) = Cite /\ SliceFrom(name, 5) \in LowerCaseOptions
    \/ Slice(name, 0, 5) = CapCite /\ SliceFrom(name, 5) \in UpperCaseOptions

\* the step has reported the use of the command
NotesUseOf == \E i \in 1..Len(NewNotes) : NewNotes[i].text = NoteUseOf

\* C25: a call of RefsScanCallback takes a command as a citation only if its
\* name begins with exactly \cite or \Cite: every other command adds no cited
\* key; an allowed variant (the suffix is in its family's list) is not
\* reported as a use; every other command that begins so, the bare \cite
\* apart, is reported in a Note and adds no cited key
C25_TwoFamilies ==
    [][Scanning =>
         /\ ~CitationPrefixed(ThisCommand.name) => NewTexFileRefs = <<>>
         /\ AllowedVariant(ThisCommand.name) => ~NotesUseOf
         /\ (/\ CitationPrefixed(ThisCommand.name)
             /\ ~AllowedVariant(ThisCommand.name)
             /\ ThisCommand.name # Cite)
               => NotesUseOf /\ NewTexFileRefs = <<>>]_vars

\* the entries the step has added to the keys of the \bibitem commands
NewBibItemRefs == SubSeq(BibItemRefs', Len(BibItemRefs) + 1, Len(BibItemRefs'))

\* the step has reported that the command has no reference list
NotesNoList ==
    \E i \in 1..Len(NewNotes) :
        NewNotes[i] = Msg(NoReferenceList, JoinWith(WordsOf(ThisCommand), <<" ">>))

\* C26: a call of RefsScanCallback with an allowed citation variant that has
\* no argument in braces, or an empty one, adds no cited key and reports a
\* Note that there is no reference list; with a \bibitem that has no key in
\* braces it adds no inline key and reports the same Note; with a \bibitem
\* that has a key it adds exactly one inline key, the text between the braces
C26_NothingDroppedSilently ==
    [][Scanning =>
         /\ (ThisCommand.name \in AllowedNames /\ ThisCommand.arg.keys = <<>>)
               => NewTexFileRefs = <<>> /\ NotesNoList
         /\ (ThisCommand.name = Bibitem /\ ThisCommand.arg.keys = <<>>)
               => NewBibItemRefs = <<>> /\ NotesNoList
         /\ (ThisCommand.name = Bibitem /\ ThisCommand.arg.keys # <<>>)
               => NewBibItemRefs = <<KeyList(ThisCommand)>> /\ ~NotesNoList]_vars

\* a citation without an argument in braces and a \bibitem with a key have
\* been scanned: one Note, no cited key, one inline key
C26_Witness ==
    /\ CmdNo = 2
    /\ Commands[1].name \in AllowedNames
    /\ ~Commands[1].arg.braces
    /\ Commands[2].name = Bibitem
    /\ Commands[2].arg.keys # <<>>
    /\ TexFileRefs = <<>>
    /\ Len(BibItemRefs) = 1
    /\ Len(Problems) + Len(Printed) = 1

\* C16: a call of RefsScanCallback with an allowed citation variant adds the
\* keys of the command's first argument in braces to the cited keys, in
\* order and without blanks around them
C16_KeysSplitAndTrimmed ==
    [][(Scanning /\ ThisCommand.name \in AllowedNames)
         => NewTexFileRefs = ThisCommand.arg.keys]_vars

----------------------------------------------------------------------------
\* VerifyRefs with its call of GetTexFileRefs: the cited keys and the
\* \bibitem keys are what the scan makes of the commands of the .tex file

VerifyNames == {Cite \o <<"p">>, Cite, Bibitem}
VerifyArgs ==
    {[braces |-> FALSE, keys |-> <<>>, sep |-> <<",">>, opt |-> FALSE],
     [braces |-> TRUE,  keys |-> <<Keysm>>, sep |-> <<",">>, opt |-> FALSE],
     [braces |-> TRUE,  keys |-> <<KeySm, KeyJones>>, sep |-> <<",">>, opt |-> FALSE]}
VerifyCommandPool == [name : VerifyNames, arg : VerifyArgs]

InitVerify ==
    /\ pc = "start"
    /\ BatchMode \in BOOLEAN
    /\ Printed = <<>>
    /\ BibExists = TRUE
    /\ Records = <<>>
    /\ BibFile = <<>>
    /\ LineNo = 0
    /\ State = NEED_AT
    /\ BibFileRefs \in SeqsUpTo({KeySm, Keysm}, MaxDbRefs)
    /\ TexExists = TRUE
    /\ AllowBibitems \in BOOLEAN
    /\ TexFileRefs = <<>>
    /\ BibItemRefs = <<>>
    /\ Problems = <<>>
    /\ Warnings = <<>>
    /\ ReturnOK = TRUE
    /\ TrimIdle
    /\ TexFile = <<BibliographyStandard>>
    /\ Commands \in SeqsUpTo(VerifyCommandPool, MaxCommands)
    /\ CmdNo = 0
    /\ Scanned = <<>>
    /\ FirstCall
    /\ AuthorIdle

\* GetTexFileRefs returns to VerifyRefs
ScanReturns ==
    /\ pc = "scanned"
    /\ pc' = "bibitems"
    /\ UNCHANGED <<Printed, refVars, BatchMode, bibVars, restVars, BibFileRefs>>

NextVerify == NextRefs \/ NextScan \/ ScanReturns

SpecVerify == InitVerify /\ [][NextVerify]_vars

\* the diagnostics of the scan, command by command
ScanNotes ==
    Concat([i \in 1..Len(Commands) |-> RefsScanCallback(WordsOf(Commands[i])).Notes])

\* the list of the \bibitem keys, reported when they are not allowed
BibitemListing ==
    IF BibItemRefs # <<>> /\ ~AllowBibitems
    THEN <<Msg(BibitemHeader, <<>>)>>
         \o [i \in 1..Len(BibItemRefs) |-> Msg(BibitemListed, Strip(BibItemRefs[i]))]
    ELSE <<>>

\* the Problems of each pass, key by key
Pass1Problems ==
    Concat([i \in 1..Len(BibFileRefs) |->
                Pass1Key(BibFileRefs[i], TexFileRefs).Problems])
Pass2Problems ==
    Concat([i \in 1..Len(BibItemRefs) |->
                Pass2Key(BibItemRefs[i], TexFileRefs).Problems])
Pass3Problems ==
    Concat([i \in 1..Len(TexFileRefs) |->
                Pass3Key(TexFileRefs[i], BibFileRefs, BibItemRefs, AllowBibitems).Problems])

\* C27: when batch-mode VerifyRefs is done, Problems holds the diagnostics of
\* the citation scan in command order, then (after the list of the \bibitem
\* keys, if they are not allowed) the Problems of pass 1 in the order of the
\* .bib keys, then those of pass 2 in the order of the \bibitem keys, then
\* those of pass 3 in the order of the cited keys; no pass stops at its first
\* offending key
C27_ProblemsInScanOrder ==
    (pc = "done" /\ BatchMode)
        => Problems = ScanNotes \o BibitemListing \o Pass1Problems
                        \o Pass2Problems \o Pass3Problems

\* a batch run is done in which the scan and each of the three passes has
\* reported something, pass 3 for two cited keys
C27_Witness ==
    /\ pc = "done"
    /\ BatchMode
    /\ ScanNotes # <<>>
    /\ Pass1Problems # <<>>
    /\ Pass2Problems # <<>>
    /\ Len(Pass3Problems) >= 2
    /\ Len(Problems) >= 5

----------------------------------------------------------------------------
\* The checks that start by looking for the main .tex file: VerifyRefs
\* (above), VerifyEps, CheckPackages, CheckRunningHeads and CheckCite

\* str.endswith(t)
EndsWith(s, t) == Len(s) >= Len(t) /\ SubSeq(s, Len(s) - Len(t) + 1, Len(s)) = t

\* a check that goes on to its  else :  branch when the .tex file is missing
MissingTexGoesOn(next) == next

\* where a check goes when the .tex file is missing: it returns
MissingTexGoesTo(next) == "done"

\* The start of VerifyEps, CheckPackages, CheckRunningHeads and CheckCite:
\*   if (not os.path.exists(TexFileName)) : ... ReturnOK = False  else : ...
LookForTex(start, next) ==
    /\ pc = start
    /\ IF ~TexExists
       THEN /\ Problems' = Report(Problems, <<Msg(CannotFindTex, <<>>)>>)
            /\ Printed' = ToScreen(<<Msg(CannotFindTex, <<>>)>>)
            /\ ReturnOK' = FALSE
            /\ pc' = MissingTexGoesTo(next)
       ELSE /\ pc' = next
            /\ UNCHANGED <<Problems, Printed, ReturnOK>>
    /\ UNCHANGED <<BatchMode, bibVars, restVars, BibFileRefs, TexExists, AllowBibitems,
                   TexFileRefs, BibItemRefs, Warnings>>

checkFrame == <<BatchMode, bibVars, restVars, BibFileRefs, TexExists, AllowBibitems,
                TexFileRefs, BibItemRefs>>

\* ---- VerifyEps, for a .tex file that uses no graphics files
\* ---- (FileListFromTex is empty); Scanned is the FileList of the directory

DotEps == <<".","e","p","s">>
EpsNotUsed == "is not used in the .tex file"

EpsFileList(FileList) ==
    SelectSeq(FileList, LAMBDA f : ~StartsWith(f, ".") /\ EndsWith(f, DotEps))

VerifyEpsFindTex ==
    /\ pc = "eps_start"
    /\ LookForTex("eps_start", "eps_check")

VerifyEpsCheck ==
    /\ pc = "eps_check"
    /\ LET Eps == EpsFileList(Scanned)
           Unused == [i \in 1..Len(Eps) |-> Msg(EpsNotUsed, Eps[i])]
       IN  /\ Warnings' = Report(Warnings, Unused)
           /\ Printed' = ToScreen(
                <<Msg(".eps files supplied:", <<>>)>>
                \o [i \in 1..Len(Eps) |-> Msg("    ", Strip(Eps[i]))]
                \o (IF Eps = <<>> THEN <<Msg("No .eps files found", <<>>)>>
                    ELSE <<Msg(" ", <<>>)>> \o Unused)
                \o <<Msg("No graphics files used by the .tex file", <<>>)>>)
           /\ ReturnOK' = IF Eps = <<>> THEN ReturnOK ELSE FALSE
    /\ pc' = "done"
    /\ UNCHANGED <<checkFrame, Problems>>

\* ---- CheckPackages; Scanned holds the two lists PackageScanCallback has
\* ---- filled from the \usepackage commands

NonStandardPackages == "includes the following non-standard package(s):"
MayBeAProblem == "this may be a problem"

CheckPackagesFindTex ==
    /\ pc = "packages_start"
    /\ LookForTex("packages_start", "packages_check")

CheckPackagesCheck ==
    /\ pc = "packages_check"
    /\ LET Packages == Concat([i \in 1..Len(Scanned.NonStandard) |->
                                 Scanned.NonStandard[i] \o <<" ">>])
           Found == IF Len(Scanned.NonStandard) > 0
                    THEN <<Msg(NonStandardPackages, <<>>), Msg("", Packages),
                           Msg(MayBeAProblem, <<>>)>>
                    ELSE <<>>
       IN  /\ Problems' = Report(Problems, Found)
           /\ Printed' = ToScreen(
                (IF Len(Scanned.StandardList) > 0
                 THEN <<Msg("includes the following standard package(s):", <<>>)>>
                      \o [i \in 1..Len(Scanned.StandardList) |->
                            Msg("   ", Scanned.StandardList[i])]
                      \o <<Msg("this is OK, but unnecessary.", <<>>)>>
                 ELSE <<>>)
                \o Found)
           /\ ReturnOK' = IF Len(Scanned.NonStandard) > 0 THEN FALSE ELSE ReturnOK
    /\ pc' = "done"
    /\ UNCHANGED <<checkFrame, Warnings>>

\* ---- CheckRunningHeads; Scanned holds the Notes RunningHeadsCallback has
\* ---- made of the \markboth commands

NoMarkboth == "has no \\markboth directive"
MarkbothProblems == "has problems with the running heads specified using \\markboth:"

CheckRunningHeadsFindTex ==
    /\ pc = "heads_start"
    /\ LookForTex("heads_start", "heads_check")

CheckRunningHeadsCheck ==
    /\ pc = "heads_check"
    /\ LET Found == IF Len(Scanned) = 2 THEN <<>>
                    ELSE IF Len(Scanned) = 0 THEN <<Msg(NoMarkboth, <<>>)>>
                    ELSE <<Msg(MarkbothProblems, <<>>)>> \o Scanned
       IN  /\ Problems' = Report(Problems, Found)
           /\ Printed' = ToScreen(IF Len(Scanned) = 2 THEN Scanned ELSE Found)
           /\ ReturnOK' = IF Len(Scanned) = 2 THEN ReturnOK ELSE FALSE
    /\ pc' = "done"
    /\ UNCHANGED <<checkFrame, Warnings>>

\* ---- CheckCite, with CiteCallback called for every command

CitesWithCite == "The .tex file cites the following references using \\cite:"
ShouldBeChanged == "These should be changed to use \\citep or \\citet"

\* What one call of CiteCallback adds to CiteRefs
CiteCallback(Words) ==
    IF Len(Words) > 0 /\ Words[1] = Cite THEN <<ExtractRefs(Tail(Words))>> ELSE <<>>

CheckCiteFindTex ==
    /\ pc = "cite_start"
    /\ LookForTex("cite_start", "cite_check")

CheckCiteCheck ==
    /\ pc = "cite_check"
    /\ LET CiteRefs == Concat([i \in 1..Len(Commands) |->
                                 CiteCallback(WordsOf(Commands[i]))])
           Refs == Concat([i \in 1..Len(CiteRefs) |-> CiteRefs[i] \o <<" ">>])
           Found == IF Len(CiteRefs) > 0
                    THEN <<Msg(CitesWithCite, <<>>), Msg("", Refs),
                           Msg(ShouldBeChanged, <<>>)>>
                    ELSE <<>>
       IN  /\ Problems' = Report(Problems, Found)
           /\ Printed' = ToScreen(Found)
           /\ ReturnOK' = IF Len(CiteRefs) > 0 THEN FALSE ELSE ReturnOK
    /\ pc' = "done"
    /\ UNCHANGED <<checkFrame, Warnings>>

\* ---- the calls of the model

StartOfCheck == {"start", "eps_start", "packages_start", "heads_start", "cite_start"}
Earlier == Msg("reported by an earlier check", <<>>)

DirectoryPool == {<<"a">> \o DotEps, <<"a",".","t","e","x">>, <<".","b">> \o DotEps}
PackageUrl == <<"u","r","l">>
PackageFoo == <<"f","o","o">>
AuthorNote == Msg("Author list for running header is", <<"A">>)
TitleNote == Msg("Paper title for running header is", <<"T">>)
BlankTitleNote == Msg("Paper title for running header is", <<>>)
RunningHeadNotes ==
    {<<>>, <<AuthorNote, TitleNote>>,
     <<AuthorNote, BlankTitleNote, Msg("Paper title is blank", <<>>)>>,
     <<AuthorNote, TitleNote, AuthorNote, TitleNote>>}
CiteCommandPool ==
    {c \in CommandPool : c.name \in {Cite, Cite \o <<"p">>} /\ ~c.arg.opt}

ScannedFor(start) ==
    CASE start = "eps_start" -> SeqsUpTo(DirectoryPool, MaxScanned)
      [] start = "packages_start" ->
            [StandardList : SeqsUpTo({PackageUrl}, 1),
             NonStandard : SeqsUpTo({PackageFoo}, MaxScanned)]
      [] start = "heads_start" -> RunningHeadNotes
      [] OTHER -> {<<>>}

InitChecks ==
    /\ pc \in StartOfCheck
    /\ BatchMode \in BOOLEAN
    /\ Printed = <<>>
    /\ BibExists = TRUE
    /\ Records = <<>>
    /\ BibFile = <<>>
    /\ LineNo = 0
    /\ State = NEED_AT
    /\ TexExists \in BOOLEAN
    /\ AllowBibitems = TRUE
    /\ BibFileRefs \in (IF pc = "start" THEN SeqsUpTo({KeySm}, 1) ELSE {<<>>})
    /\ TexFileRefs \in (IF pc = "start" THEN SeqsUpTo({KeySm, KeyJo}, 1) ELSE {<<>>})
    /\ BibItemRefs = <<>>
    /\ Problems \in (IF BatchMode THEN {<<>>, <<Earlier>>} ELSE {<<>>})
    /\ Warnings \in (IF BatchMode THEN {<<>>, <<Earlier>>} ELSE {<<>>})
    /\ ReturnOK = TRUE
    /\ TrimIdle
    /\ TexFile \in (IF pc = "start" /\ TexExists
                    THEN {<<BibliographyStandard>>, <<BibliographyExample>>}
                    ELSE {<<>>})
    /\ Commands \in (IF pc = "cite_start" THEN SeqsUpTo(CiteCommandPool, MaxCommands)
                     ELSE {<<>>})
    /\ CmdNo = 0
    /\ Scanned \in ScannedFor(pc)
    /\ FirstCall
    /\ AuthorIdle

NextChecks ==
    \/ NextRefs
    \/ VerifyEpsFindTex \/ VerifyEpsCheck
    \/ CheckPackagesFindTex \/ CheckPackagesCheck
    \/ CheckRunningHeadsFindTex \/ CheckRunningHeadsCheck
    \/ CheckCiteFindTex \/ CheckCiteCheck

SpecChecks == InitChecks /\ [][NextChecks]_vars

----------------------------------------------------------------------------
\* Properties of the checks when the main .tex file is missing

\* C17: in batch mode, the step a check makes from its start when there is no
\* main .tex file appends the one Problem 'Cannot find main .tex file' to
\* Problems, leaves Warnings as they are, makes the result False and ends
\* the check; no step follows the end of a check
C17_MissingTexEndsCheck ==
    /\ [][(pc \in StartOfCheck /\ ~TexExists /\ BatchMode)
            => /\ Problems' = Append(Problems, Msg(CannotFindTex, <<>>))
               /\ Warnings' = Warnings
               /\ ReturnOK' = FALSE
               /\ pc' = "done"]_vars
    /\ [][pc # "done"]_vars

\* a batch-mode check other than VerifyRefs has ended for want of the .tex
\* file, with the lists it was given holding earlier diagnostics
C17_Witness ==
    /\ pc = "done"
    /\ ~TexExists
    /\ BatchMode
    /\ BibFileRefs = <<>>
    /\ Scanned # <<>>
    /\ Problems = <<Earlier, Msg(CannotFindTex, <<>>)>>
    /\ Warnings = <<Earlier>>
    /\ ReturnOK = FALSE

----------------------------------------------------------------------------
\* VerifyRefs called twice on the same files, with the same lists

\* a list that is not emptied before the .tex file is scanned again
FreshListKept(list) == list

\* TexFileRefs = [] and BibItemRefs = []: the lists start empty in every call
FreshList(list) == <<>>

InitTwice ==
    /\ pc = "start"
    /\ BatchMode \in BOOLEAN
    /\ Printed = <<>>
    /\ BibExists = TRUE
    /\ Records = <<>>
    /\ BibFile = <<>>
    /\ LineNo = 0
    /\ State = NEED_AT
    /\ BibFileRefs \in SeqsUpTo({KeySm, Keysm}, MaxDbRefs)
    /\ TexExists \in BOOLEAN
    /\ AllowBibitems \in BOOLEAN
    /\ TexFileRefs \in SeqsUpTo({KeySm, Keysm}, MaxTexRefs)
    /\ BibItemRefs \in SeqsUpTo({KeySm}, MaxBibItems)
    /\ Problems = <<>>
    /\ Warnings = <<>>
    /\ ReturnOK = TRUE
    /\ RestIdle
    /\ TexFile \in (IF TexExists THEN {<<BibliographyStandard>>, <<BibliographyExample>>}
                                 ELSE {<<>>})

\* VerifyRefs has returned and is called again, for the same files and with
\* the same Problems and Warnings lists: ReturnOK = True, and the lists of
\* keys are made anew from the files, which hold the keys they held
CallAgain ==
    /\ pc = "done"
    /\ Run = 1
    /\ Run' = 2
    /\ FirstRun' = [Problems |-> Problems, Warnings |-> Warnings,
                    Printed |-> Printed, ReturnOK |-> ReturnOK]
    /\ ReturnOK' = TRUE
    /\ TexFileRefs' = FreshList(TexFileRefs) \o TexFileRefs
    /\ BibItemRefs' = FreshList(BibItemRefs) \o BibItemRefs
    /\ pc' = "start"
    /\ UNCHANGED <<BatchMode, Printed, bibVars, BibFileRefs, TexExists, AllowBibitems,
                   Problems, Warnings, trimVars, TexFile, scanVars, authorVars>>

NextTwice == NextRefs \/ CallAgain

SpecTwice == InitTwice /\ [][NextTwice]_vars

----------------------------------------------------------------------------
\* AuthorScanCallback and GetInitial

RECURSIVE ReplaceStr(_, _, _)
\* str.replace(old, new) for a non-empty old
ReplaceStr(s, old, new) ==
    LET i == FindStr(s, old)
    IN  IF i < 0 THEN s
        ELSE Slice(s, 0, i) \o new \o ReplaceStr(SliceFrom(s, i + Len(old)), old, new)

\* str.rfind(c) for a one-character c: the highest 0-based index, or -1
RFind(s, c) ==
    IF \E i \in 1..Len(s) : s[i] = c
    THEN (CHOOSE i \in 1..Len(s) : s[i] = c /\ \A j \in (i + 1)..Len(s) : s[j] # c) - 1
    ELSE -1

\* str.startswith(t)
StartsWithStr(s, t) == Len(s) >= Len(t) /\ SubSeq(s, 1, Len(t)) = t

RECURSIVE SplitWords(_)
\* str.split(): the words between runs of white space
SplitWords(s) ==
    LET t == LStrip(s)
        ws == {i \in 1..Len(t) : t[i] \in Whitespace}
        n == IF ws = {} THEN Len(t) + 1 ELSE CHOOSE i \in ws : \A j \in ws : i <= j
    IN  IF t = <<>> THEN <<>>
        ELSE <<SubSeq(t, 1, n - 1)>> \o SplitWords(SubSeq(t, n, Len(t)))

\* str.islower() and str.isupper() of one character
IsLower(c) == \E i \in 1..Len(LowerLetters) : LowerLetters[i] = c
IsUpper(c) == \E i \in 1..Len(UpperLetters) : UpperLetters[i] = c

UnexpectedControl == "Unexpected control sequence for initial in <Forename>"
InitialLowerCase == "Initial letter in '<Forename>' is in lower case"

\* a GetInitial that answers '?' where Forename has no character at Index
GetInitialPadded(Forename, Index) ==
    [raised |-> FALSE, Initial |-> <<"?">>, Notes |-> <<Msg(UnexpectedControl, Forename)>>]

\* GetInitial(Forename, Index, Notes): the initial at the 0-based Index and the
\* Notes it appends; Forename[Index] raises IndexError past the end of Forename
GetInitial(Forename, Index) ==
    IF Index >= Len(Forename)
    THEN [raised |-> TRUE, Initial |-> <<>>, Notes |-> <<>>]
    ELSE LET First == Forename[Index + 1]
             Special == /\ First = "\\"
                        /\ Len(Forename) > Index + 4
                        /\ Forename[Index + 3] = "{"
                        /\ Forename[Index + 5] = "}"
             Initial == IF First # "\\" THEN <<First>>
                        ELSE IF Special THEN Slice(Forename, Index, Index + 5)
                        ELSE <<"?">>
             Letter == IF Special THEN Forename[Index + 4] ELSE First
         IN  [raised |-> FALSE,
              Initial |-> Initial,
              Notes |-> IF Initial = <<"?">>
                        THEN <<Msg(UnexpectedControl, Forename)>>
                        ELSE IF IsLower(Letter)
                             THEN <<Msg(InitialLowerCase, Forename)>>
                             ELSE <<>>]

Misformed == "Misformed author list"
PossibleMissingComma == "Possible missing comma near '<text>'"
ExtraneousComma == "Extraneous comma at end of author list"
MissingSerialComma == "Note: '<author>' may have a missing serial comma."
UnexpectedAnd == "Note: unexpected 'and' before last author"
AndMissing == "Note: 'and' missing from last of multiple authors"
NotRealNames == "The following may not be real names: <names>"
StartsLowerCase == "Surname '<surname>' starts in lower case"
ContainsUpperCase == "Surname '<surname>' contains upper case characters"
AssumedSurname == "<surname> assumed to be a surname"
MightBeSurname == "Might '<names>' be a surname?"
EndWithSurname == "Names should end with the surname"
SurnameFirst == "Might <names> have been given surname first?"
MisplacedInitial == "Might <surname> be a misplaced initial?"
JustSurname == "<surname> seems to be just a surname"

\* the character ` , which no string of the module can hold on its own
Grave == "`'"

Accents == <<Grave>> \o <<"'", "^", "\"", "H", "~", "c", "k", "l", "=", "b", ".", "d", "r", "u", "v">>
IffyNameList == {<<"o", "n">>, <<"b", "e", "h", "a", "l", "f">>, <<"t", "e", "a", "m">>, <<"t", "h", "e">>, <<"o", "f">>}
Particles == {<<"v", "a", "n">>, <<"d", "e">>, <<"d", "e", "n">>, <<"v", "o", "n">>, <<"l", "e">>, <<"d", "a">>, <<"d", "e", "r">>}
RomanSuffixes == {<<"I", "I">>, <<"I", "I", "I">>, <<"I", "V">>, <<"V">>}

\* Author.replace('~',' ').replace('.',' ').strip()
Spaced(Author) == Strip(ReplaceStr(ReplaceStr(Author, <<"~">>, <<" ">>), <<".">>, <<" ">>))

RECURSIVE MaskMath(_, _, _)
\* The loop that drops what stands between $ signs, from the 0-based Index on:
\* one call takes the characters up to the next $ sign, and that $ sign
MaskMath(Text, Index, S) ==
    IF Index >= Len(Text) THEN S
    ELSE LET Dollar == Find(SliceFrom(Text, Index), "$")
             Stop == IF Dollar < 0 THEN Len(Text) ELSE Index + Dollar
             Chars == Slice(Text, Index, Stop)
             Copied == IF S.InMath THEN S
                       ELSE [S EXCEPT !.MathCount = IF Find(Chars, ",") >= 0 THEN 0 ELSE @,
                                      !.AString = @ \o Chars]
         IN  IF Stop >= Len(Text) THEN Copied
             ELSE MaskMath(Text, Stop + 1,
                      IF Copied.InMath
                      THEN [Copied EXCEPT
                               !.InMath = FALSE,
                               !.Notes = IF Copied.MathCount > 0 /\ Stop < Len(Text) - 1
                                         THEN Append(@, Msg(PossibleMissingComma,
                                                            Slice(Text, Copied.Posn, Stop)))
                                         ELSE @,
                               !.MathCount = @ + 1,
                               !.Posn = Stop]
                      ELSE [Copied EXCEPT !.InMath = TRUE, !.AString = Append(@, " ")])

\* The two author case: a comma goes before the ' and ' of a list without commas
TwoAuthors(AString) ==
    LET AndIndex == FindStr(AString, <<" ", "a", "n", "d", " ">>)
    IN  IF Find(AString, ",") < 0 /\ AndIndex > 0
        THEN Slice(AString, 0, AndIndex) \o <<",">> \o SliceFrom(AString, AndIndex)
        ELSE AString

\* a comma at the end of the author list
Extraneous(AString) == Len(AString) > 0 /\ AString[Len(AString)] = ","

\* the last of the parts, or the one before it where the last is empty, with
\* its '~' and '.' turned into spaces
LastAuthor(Parts) ==
    Spaced(IF Parts[Len(Parts)] = <<>> /\ Len(Parts) > 1
           THEN Parts[Len(Parts) - 1] ELSE Parts[Len(Parts)])

\* a check for a missing serial comma that finds none
NoSerialCommaNever(Author) == FALSE

\* the last author has an ' and ' that is not at its start
NoSerialComma(Author) == ~StartsWithStr(Author, <<"a", "n", "d">>) /\ FindStr(Author, <<" ", "a", "n", "d", " ">>) >= 0

\* The check for a missing serial comma, on the list split at its commas
SplitSerial(AString, Author, Said) ==
    IF NoSerialComma(Author)
    THEN [AList |-> SplitOn(ReplaceStr(AString, <<" ", "a", "n", "d", " ">>, <<",">>), ","),
          Notes |-> Append(Said, Msg(MissingSerialComma, Author))]
    ELSE [AList |-> SplitOn(AString, ","), Notes |-> Said]

\* The split of the stripped list, after its extraneous last comma is dropped
SplitStripped(AString, Said) ==
    IF Extraneous(AString)
    THEN SplitSerial(Slice(AString, 0, Len(AString) - 1),
                     LastAuthor(SplitOn(Slice(AString, 0, Len(AString) - 1), ",")),
                     Append(Said, Msg(ExtraneousComma, <<>>)))
    ELSE SplitSerial(AString, LastAuthor(SplitOn(AString, ",")), Said)

SplitMasked(Masked) == SplitStripped(Strip(TwoAuthors(Masked.AString)), Masked.Notes)

\* The author list cut into the parts that commas separate, with the Notes made
\* on the way
SplitAuthors(Text) ==
    SplitMasked(MaskMath(Strip(Text), 0, [InMath |-> FALSE, AString |-> <<>>,
                                          MathCount |-> 0, Posn |-> 0, Notes |-> <<>>]))

RECURSIVE Initials(_, _)
\* The loop that reduces the forenames to initials: S holds the NameString and
\* the Notes so far, and whether a GetInitial call has raised
Initials(Forenames, S) ==
    IF Forenames = <<>> \/ S.raised THEN S
    ELSE LET Forename == Head(Forenames)
             First == GetInitial(Forename, 0)
             Second == GetInitial(Forename, 1)
             DashIndex == Find(Forename, "-")
             AfterDash == GetInitial(Forename, DashIndex + 1)
             Step ==
                 IF First.raised THEN [S EXCEPT !.raised = TRUE]
                 ELSE IF First.Initial = <<"-">>
                 THEN [raised |-> Second.raised,
                       NameString |-> IF Second.raised THEN S.NameString
                                      ELSE S.NameString \o <<"-">> \o Second.Initial \o <<".">>,
                       Notes |-> S.Notes \o First.Notes \o Second.Notes]
                 ELSE IF DashIndex > 0
                 THEN [raised |-> AfterDash.raised,
                       NameString |-> S.NameString \o <<"~">> \o First.Initial \o <<".">>
                                      \o (IF AfterDash.raised THEN <<>>
                                          ELSE <<"-">> \o AfterDash.Initial \o <<".">>),
                       Notes |-> S.Notes \o First.Notes \o AfterDash.Notes]
                 ELSE [raised |-> FALSE,
                       NameString |-> S.NameString \o <<"~">> \o First.Initial \o <<".">>,
                       Notes |-> S.Notes \o First.Notes]
         IN  Initials(Tail(Forenames), Step)

RECURSIVE WithParticles(_, _, _)
\* a loop that prepends one particle at most
WithParticlesOnce(NameList, NumNames, Surname) ==
    IF NumNames > 0 /\ Lower(NameList[NumNames]) \in Particles
    THEN [Surname |-> NameList[NumNames] \o <<" ">> \o Surname, NumNames |-> NumNames - 1]
    ELSE [Surname |-> Surname, NumNames |-> NumNames]

\* The loop that prepends 'van', 'der' and the like to the surname
WithParticles(NameList, NumNames, Surname) ==
    IF NumNames > 0 /\ Lower(NameList[NumNames]) \in Particles
    THEN WithParticles(NameList, NumNames - 1, NameList[NumNames] \o <<" ">> \o Surname)
    ELSE [Surname |-> Surname, NumNames |-> NumNames]

\* The Notes of the check of upper and lower case in a surname
SurnameCase(Surname) ==
    (IF Len(Surname) > 0 /\ IsLower(Surname[1])
     THEN <<Msg(StartsLowerCase, Surname)>> ELSE <<>>)
    \o (IF \E i \in 2..Len(Surname) :
              /\ IsUpper(Surname[i])
              /\ Surname[i - 1] \notin {"-", "'"}
              /\ SubSeq(Surname, 1, i - 1) \notin {<<"M", "a", "c">>, <<"M", "c">>}
        THEN <<Msg(ContainsUpperCase, Surname)>> ELSE <<>>)

\* The author with '~' and '.' turned into spaces, but '\~' kept
PlainAuthor(Entry) ==
    IF FindStr(Entry, <<"\\", "~">>) >= 0
    THEN ReplaceStr(Spaced(ReplaceStr(Entry, <<"\\", "~">>, <<"\\", "t", "w", "i", "d", "d", "l", "e">>)), <<"\\", "t", "w", "i", "d", "d", "l", "e">>, <<"\\", "~">>)
    ELSE Spaced(Entry)

\* The Notes on a leading 'and'
AndNotes(HasAnd, AndExpected) ==
    IF HasAnd /\ ~AndExpected THEN <<Msg(UnexpectedAnd, <<>>)>>
    ELSE IF ~HasAnd /\ AndExpected THEN <<Msg(AndMissing, <<>>)>>
    ELSE <<>>

\* The Notes on names like 'on behalf of the team'
IffyNotes(NameList) ==
    LET Iffy == SelectSeq(NameList, LAMBDA Name : Lower(Name) \in IffyNameList)
    IN  IF Iffy # <<>> THEN <<Msg(NotRealNames, JoinWith(Iffy, <<",", " ">>))>> ELSE <<>>

\* The suffix that the last of several names is, or ""
SuffixOf(NameList) ==
    IF Len(NameList) <= 1 THEN <<>>
    ELSE IF Lower(NameList[Len(NameList)]) = <<"j", "r">> THEN <<"J", "r", ".">>
    ELSE IF Lower(NameList[Len(NameList)]) = <<"s", "r">> THEN <<"S", "r", ".">>
    ELSE IF NameList[Len(NameList)] \in RomanSuffixes THEN NameList[Len(NameList)]
    ELSE <<>>

\* The Notes on a last forename that is spelled out
SpanishNotes(NameList, NumNames, Surname) ==
    IF NumNames > 1
       /\ Cardinality({i \in 1..Len(NameList[NumNames]) :
                          IsUpper(NameList[NumNames][i]) \/ IsLower(NameList[NumNames][i])}) > 1
    THEN <<Msg(MightBeSurname, NameList[NumNames] \o <<" ">> \o Surname)>>
    ELSE <<>>

\* a surname of one letter after a longer first name
SurnameGivenFirst(NameList, NumNames, Surname) ==
    Len(Surname) = 1 /\ NumNames > 0 /\ Len(NameList[1]) > 1

OrderNotes(NameList, NumNames, Surname, Warned) ==
    IF SurnameGivenFirst(NameList, NumNames, Surname)
    THEN (IF Warned THEN <<>> ELSE <<Msg(EndWithSurname, <<>>)>>)
         \o <<Msg(SurnameFirst, NameList[1] \o <<" ">> \o Surname)>>
    ELSE <<>>

\* The Notes on an author without initials
AloneNotes(NumNames, Surname) ==
    IF NumNames > 0 THEN <<>>
    ELSE IF Len(Surname) = 1 THEN <<Msg(MisplacedInitial, Surname)>>
    ELSE <<Msg(JustSurname, Surname)>>

\* The end of a pass: the record goes to AuthorList unless GetInitial raised
FinishedAuthor(Done, Suffix, NumNames, Surname, Warned) ==
    IF Done.raised
    THEN [raised |-> TRUE, Names |-> <<>>, Notes |-> Done.Notes,
          OrderWarning |-> Warned]
    ELSE [raised |-> FALSE,
          Names |-> <<Done.NameString \o (IF Suffix # <<>> THEN <<",", "~">> \o Suffix ELSE <<>>)>>,
          Notes |-> Done.Notes \o AloneNotes(NumNames, Surname),
          OrderWarning |-> Warned]

\* A pass from the surname with its particles on
SurnamedAuthor(NameList, Suffix, Named, NumNames, Surname, Said, Warned) ==
    FinishedAuthor(
        Initials(SubSeq(NameList, 1, NumNames),
                 [raised |-> FALSE,
                  NameString |-> Surname \o <<",">>,
                  Notes |-> Said
                            \o (IF NumNames < Named - 1
                                THEN <<Msg(AssumedSurname, Surname)>> ELSE <<>>)
                            \o SpanishNotes(NameList, NumNames, Surname)
                            \o OrderNotes(NameList, NumNames, Surname, Warned)]),
        Suffix, NumNames, Surname,
        Warned \/ SurnameGivenFirst(NameList, NumNames, Surname))

FoundAuthor(NameList, Suffix, Named, Found, Said, Warned) ==
    SurnamedAuthor(NameList, Suffix, Named, Found.NumNames, Found.Surname, Said, Warned)

\* A pass from the suffix on; Named counts the names without the suffix
SuffixedAuthor(NameList, Suffix, Named, Said, Warned) ==
    FoundAuthor(NameList, Suffix, Named,
                WithParticles(NameList, Named - 1, NameList[Named]),
                Said \o SurnameCase(NameList[Named]), Warned)

\* A pass from the split into names on
NamedAuthor(NameList, Said, Warned) ==
    IF Len(NameList) = 0
    THEN [raised |-> FALSE, Names |-> <<>>, Notes |-> Said \o IffyNotes(NameList),
          OrderWarning |-> Warned]
    ELSE SuffixedAuthor(NameList, SuffixOf(NameList),
                        IF SuffixOf(NameList) # <<>> THEN Len(NameList) - 1
                        ELSE Len(NameList),
                        Said \o IffyNotes(NameList), Warned)

PlainNamed(Plain, HasAnd, AndExpected, Warned) ==
    NamedAuthor(SplitWords(IF HasAnd THEN SliceFrom(Plain, 4) ELSE Plain),
                AndNotes(HasAnd, AndExpected), Warned)

PlainAuthorNamed(Plain, AndExpected, Warned) ==
    PlainNamed(Plain, StartsWithStr(Plain, <<"a", "n", "d">>), AndExpected, Warned)

\* One pass of the loop over AList, for the entry at the 0-based Index of Total
\* entries: the record appended to AuthorList (Names has none or one), the
\* Notes appended, OrderWarning, and whether GetInitial raised
OneAuthor(Entry, Index, Total, Warned) ==
    PlainAuthorNamed(PlainAuthor(Entry), Index = Total - 1 /\ Total > 1, Warned)

\* ---- inputs: the words of one command of the .tex file

MaxAuthors == 3     \* names in an \author list

NamePool == {<<"A", ".", "~", "B", ".", " ", "S", "m", "i", "t", "h">>, <<"C", ".", " ", "J", "o", "n", "e", "s">>, <<"D", ".", "~", "E", ".", " ", "J", "o", "n", "e", "s", "-", "B", "r", "o", "w", "n">>,
             <<"J", "e", "a", "n", "-", "L", "u", "c", " ", "P", "i", "c", "a", "r", "d">>, <<"J", "e", "a", "n", "-", " ", "P", "i", "c", "a", "r", "d">>, <<"-", " ", "P", "i", "c", "a", "r", "d">>}

LastSeparators == {<<",", " ", "a", "n", "d", " ">>, <<" ", "a", "n", "d", " ">>}

\* the names with ", " between them and sep before the last one
AuthorText(names, sep) ==
    IF Len(names) = 1 THEN names[1]
    ELSE JoinWith(SubSeq(names, 1, Len(names) - 1), <<",", " ">>) \o sep \o names[Len(names)]

NameLists == SeqsUpTo(NamePool, MaxAuthors) \ {<<>>}

VanDerWaals == <<"A", ".", " ", "v", "a", "n", " ", "d", "e", "r", " ", "W", "a", "a", "l", "s">>
VonDerLeTann == <<"C", ".", " ", "V", "o", "n", " ", "D", "E", "R", " ", "l", "e", " ", "T", "a", "n", "n">>

OtherLists == {<<"s", "m", "i", "t", "h">>, <<"L", ".", " ", "v", "a", "n", " ", "B", "e", "e", "t", "h", "o", "v", "e", "n", ",", " ", "a", "n", "d", " ", "J", ".", " ", "M", "c", "A", "d", "a", "m", " ", "J", "r">>,
               <<"M", "a", "r", "i", "o", " ", "V", "a", "r", "g", "a", "s", " ", "L", "l", "o", "s", "a", ",", " ", "O", ".", " ", "D", "e", "W", "i", "t", "t", ",">>, <<"K", "i", "r", "k", " ", "J", ",", " ", "a", "n", "d", " ", "S", "p", "o", "c", "k", " ", "S">>,
               <<"F", "r", "a", "n", "\\", "c", " ", "c", "o", "i", "s", " ", "D", "u", "p", "o", "n", "t", "\\", "\\">>, <<"A", ".", " ", "S", "m", "i", "t", "h", "$", "^", "1", "$", " ", "B", ".", " ", "J", "o", "n", "e", "s", "$", "^", "2", "$", ",", " ", "a", "n", "d", " ", "x", ".", " ", "o", "n", " ", "b", "e", "h", "a", "l", "f", " ", "o", "f", " ", "t", "h", "e", " ", "T", "e", "a", "m">>,
               <<"J", ".", " ", "S", "m", "i", "t", "h", "\\", "a", "f", "f", "i", "l", "{", "S", "o", "m", "e", "w", "h", "e", "r", "e", "}">>}

\* an accent shorthand and a space as the last thing before the closing brace
AccentAtEnd == <<"A", ".", " ", "S", "m", "i", "t", "h", "\\", "c", " ">>

ParticleLists == {VanDerWaals, VonDerLeTann, <<"v", "a", "n", " ", "d", "e", "r", " ", "W", "a", "a", "l", "s">>}

AuthorCommand(text) == <<<<"\\", "a", "u", "t", "h", "o", "r">>, <<"{">> \o text \o <<"}">>>>

AuthorWordsPool ==
    {AuthorCommand(AuthorText(names, sep)) : names \in NameLists, sep \in LastSeparators}
    \cup {AuthorCommand(text) : text \in OtherLists \cup ParticleLists \cup {AccentAtEnd}}
    \cup {<<<<"\\", "a", "u", "t", "h", "o", "r">>>>, <<<<"\\", "t", "i", "t", "l", "e">>, <<"{", "A", " ", "T", "i", "t", "l", "e", "}">>>>, <<<<"\\", "a", "u", "t", "h", "o", "r">>, <<" ">>>>,
          <<<<"\\", "a", "u", "t", "h", "o", "r">>, <<"A", ".", " ", "S", "m", "i", "t", "h">>>>, <<<<"\\", "a", "u", "t", "h", "o", "r">>, <<"{", "A", ".", " ", "S", "m", "i", "t", "h">>>>}

InitAuthor ==
    /\ pc = "author_start"
    /\ BatchMode = FALSE
    /\ Printed = <<>>
    /\ BibExists = FALSE
    /\ Records = <<>>
    /\ BibFile = <<>>
    /\ LineNo = 0
    /\ State = NEED_AT
    /\ BibFileRefs = <<>>
    /\ TexExists = TRUE
    /\ AllowBibitems = FALSE
    /\ TexFileRefs = <<>>
    /\ BibItemRefs = <<>>
    /\ Problems = <<>>
    /\ Warnings = <<>>
    /\ ReturnOK = TRUE
    /\ TrimIdle
    /\ TexFile = <<>>
    /\ ScanIdle
    /\ FirstCall
    /\ AuthorWords \in AuthorWordsPool
    /\ Authors = <<>>
    /\ RawAuthors = <<>>
    /\ AccentNo = 0
    /\ AList = <<>>
    /\ AuthorNo = 0
    /\ OrderWarning = FALSE
    /\ AuthorList = <<>>
    /\ Notes = <<>>

authorFrame == <<BatchMode, Printed, bibVars, BibFileRefs, refVars, trimVars, TexFile, scanVars,
                 runVars, AuthorWords>>

RawList == "<RawAuthors>"

\* AuthorScanCallback up to the setting of RawAuthors
AuthorStart ==
    /\ pc = "author_start"
    /\ LET Words == AuthorWords
           Text == Strip(Words[2])
           AffilIndex == FindStr(Text, <<"\\", "a", "f", "f", "i", "l">>)
           EndIndex == IF AffilIndex < 0 THEN RFind(Text, "}") ELSE AffilIndex
           Cut == ReplaceStr(ReplaceStr(ReplaceStr(Slice(Text, 1, EndIndex),
                      <<"\\", "\\", "*">>, <<>>), <<"\\", "\\">>, <<>>), <<"\\", " ">>, <<" ">>)
       IN  IF Len(Words) > 1 /\ Words[1] = <<"\\", "a", "u", "t", "h", "o", "r">> /\ Len(Text) > 0
              /\ StartsWith(Text, "{")
           THEN IF EndIndex <= 0
                THEN /\ Notes' = Append(Notes, Msg(Misformed, <<>>))
                     /\ pc' = "author_done"
                     /\ UNCHANGED <<Authors, RawAuthors, AccentNo>>
                ELSE /\ Authors' = Cut
                     /\ RawAuthors' = Cut
                     /\ AccentNo' = 1
                     /\ pc' = "author_accents"
                     /\ UNCHANGED Notes
           ELSE /\ pc' = "author_done"
                /\ UNCHANGED <<Authors, RawAuthors, AccentNo, Notes>>
    /\ UNCHANGED <<authorFrame, AList, AuthorNo, OrderWarning, AuthorList>>

\* One pass of the  while (More)  loop for the character Accents[AccentNo]
AccentStep ==
    /\ pc = "author_accents"
    /\ LET Char == Accents[AccentNo]
           Index == FindStr(Authors, <<"\\", Char, " ">>)
           Cposn == Index + 3
       IN  IF Index >= 0
           THEN /\ Authors' = IF Cposn < Len(Authors)
                              THEN ReplaceStr(Authors,
                                              <<"\\", Char, " ", Authors[Cposn + 1]>>,
                                              <<"\\", Char, "{", Authors[Cposn + 1], "}">>)
                              ELSE Authors
                /\ UNCHANGED <<AccentNo, pc>>
           ELSE /\ AccentNo' = AccentNo + 1
                /\ pc' = IF AccentNo = Len(Accents) THEN "author_split" ELSE "author_accents"
                /\ UNCHANGED Authors
    /\ UNCHANGED <<authorFrame, RawAuthors, AList, AuthorNo, OrderWarning, AuthorList, Notes>>

\* From the masking of math to the split at the commas
AuthorSplit ==
    /\ pc = "author_split"
    /\ LET R == SplitAuthors(Authors)
       IN  /\ AList' = R.AList
           /\ Notes' = Notes \o R.Notes
    /\ OrderWarning' = FALSE
    /\ AuthorNo' = 0
    /\ pc' = "author_names"
    /\ UNCHANGED <<authorFrame, Authors, RawAuthors, AccentNo, AuthorList>>

\* One pass of the loop over AList; an IndexError in GetInitial ends the call
AuthorName ==
    /\ pc = "author_names"
    /\ AuthorNo < Len(AList)
    /\ LET R == OneAuthor(AList[AuthorNo + 1], AuthorNo, Len(AList), OrderWarning)
       IN  /\ Notes' = Notes \o R.Notes
           /\ OrderWarning' = R.OrderWarning
           /\ AuthorList' = AuthorList \o R.Names
           /\ IF R.raised
              THEN pc' = "raised" /\ UNCHANGED AuthorNo
              ELSE pc' = "author_names" /\ AuthorNo' = AuthorNo + 1
    /\ UNCHANGED <<authorFrame, Authors, RawAuthors, AccentNo, AList>>

\* The end of the loop: the raw author list follows any Notes
AuthorFinish ==
    /\ pc = "author_names"
    /\ AuthorNo = Len(AList)
    /\ Notes' = IF Len(Notes) > 0 THEN Append(Notes, Msg(RawList, RawAuthors)) ELSE Notes
    /\ pc' = "author_done"
    /\ UNCHANGED <<authorFrame, Authors, RawAuthors, AccentNo, AList, AuthorNo,
                   OrderWarning, AuthorList>>

NextAuthor == AuthorStart \/ AccentStep \/ AuthorSplit \/ AuthorName \/ AuthorFinish

SpecAuthor == InitAuthor /\ [][NextAuthor]_vars

----------------------------------------------------------------------------
\* Properties of AuthorScanCallback

\* C18: AuthorScanCallback never raises an exception to its caller, whatever
\* the text of the \author argument: a forename that ends in a hyphen or that
\* is a lone hyphen becomes a Note and the remaining authors are processed.
C18_NeverRaises == pc # "raised"

LiteralExample == AuthorCommand(<<"A", ".", "~", "B", ".", " ", "S", "m", "i", "t", "h", ",", " ", "C", ".", " ", "J", "o", "n", "e", "s", ",", " ", "a", "n", "d", " ", "D", ".", "~", "E", ".", " ", "J", "o", "n", "e", "s", "-", "B", "r", "o", "w", "n">>)

\* C20 as stated: for the author list 'A.~B. Smith, C. Jones, and D.~E.
\* Jones-Brown' the call ends with exactly the records 'Smith,~A.~B.',
\* 'Jones,~C.' and 'Jones-Brown,~D.-E.' in AuthorList, in that order, and with
\* nothing in Notes.
C20_LiteralExample ==
    (AuthorWords = LiteralExample /\ pc = "author_done")
        => /\ AuthorList = <<<<"S", "m", "i", "t", "h", ",", "~", "A", ".", "~", "B", ".">>, <<"J", "o", "n", "e", "s", ",", "~", "C", ".">>, <<"J", "o", "n", "e", "s", "-", "B", "r", "o", "w", "n", ",", "~", "D", ".", "-", "E", ".">>>>
           /\ Notes = <<>>

\* C20, amended: for the author list 'A.~B. Smith, C. Jones, and D.~E.
\* Jones-Brown' the call never raises, and it ends with exactly the records
\* 'Smith,~A.~B.', 'Jones,~C.' and 'Jones-Brown,~D.~E.' in AuthorList, in that
\* order, and with nothing in Notes: the initials of two separate forenames are
\* joined with '~', and the hyphen of the surname plays no part in them.
C20_LiteralExampleTildes ==
    AuthorWords = LiteralExample
        => /\ pc # "raised"
           /\ pc = "author_done"
                  => /\ AuthorList = <<<<"S", "m", "i", "t", "h", ",", "~", "A", ".", "~", "B", ".">>, <<"J", "o", "n", "e", "s", ",", "~", "C", ".">>, <<"J", "o", "n", "e", "s", "-", "B", "r", "o", "w", "n", ",", "~", "D", ".", "~", "E", ".">>>>
                     /\ Notes = <<>>

C20_Witness ==
    /\ AuthorWords = LiteralExample
    /\ pc = "author_done"
    /\ Len(AuthorList) = 3
    /\ AuthorList[3] = <<"J", "o", "n", "e", "s", "-", "B", "r", "o", "w", "n", ",", "~", "D", ".", "~", "E", ".">>

RECURSIVE RecordsFrom(_, _, _)
\* The records that the passes over List make from the 0-based Index on, up
\* to the end of List or to the pass in which GetInitial raises
RecordsFrom(List, Index, Warned) ==
    IF Index >= Len(List) THEN <<>>
    ELSE IF OneAuthor(List[Index + 1], Index, Len(List), Warned).raised THEN <<>>
    ELSE OneAuthor(List[Index + 1], Index, Len(List), Warned).Names
         \o RecordsFrom(List, Index + 1,
                        OneAuthor(List[Index + 1], Index, Len(List), Warned).OrderWarning)

\* the records of an author list
RecordsOf(Text) == RecordsFrom(SplitAuthors(Text).AList, 0, FALSE)

\* the call has split the author list
SplitDone == pc \in {"author_names", "author_done", "raised"}

\* a list of three or more names with ' and ' but no comma before the last
NoSerialList ==
    /\ Len(SplitOn(Authors, ",")) >= 2
    /\ FindStr(SplitOn(Authors, ",")[Len(SplitOn(Authors, ","))], <<" ", "a", "n", "d", " ">>) > 0
    /\ FindStr(Authors, <<",", " ", "a", "n", "d", " ">>) < 0

\* the Notes on a missing serial comma
SerialNotes == SelectSeq(Notes, LAMBDA n : n.text = MissingSerialComma)

\* C21: for a list of three or more names whose last two are joined by ' and '
\* without a comma the call appends exactly one 'may have a missing serial
\* comma' Note, and it ends with the records of the list written with the
\* serial comma.
C21_MissingSerialComma ==
    (SplitDone /\ NoSerialList)
        => /\ Len(SerialNotes) = 1
           /\ pc = "author_done"
                  => AuthorList = RecordsOf(ReplaceStr(Authors, <<" ", "a", "n", "d", " ">>, <<",", " ", "a", "n", "d", " ">>))

C21_Witness ==
    /\ pc = "author_done"
    /\ NoSerialList
    /\ Len(AuthorList) = 3
    /\ Len(SerialNotes) = 1

\* the Notes that name a compound surname
AssumedNotes == SelectSeq(Notes, LAMBDA n : n.text = AssumedSurname)

\* C22: every word of van, de, den, von, le, da and der before the surname, in
\* any case, becomes part of the surname: 'A. van der Waals' gives the single
\* record 'van der Waals,~A.' and one Note naming the compound surname, and
\* so does a surname with three particles; no record has more than one such
\* Note.
C22_Particles ==
    /\ (pc = "author_done" /\ AuthorWords = AuthorCommand(VanDerWaals))
           => /\ AuthorList = <<<<"v", "a", "n", " ", "d", "e", "r", " ", "W", "a", "a", "l", "s", ",", "~", "A", ".">>>>
              /\ AssumedNotes = <<Msg(AssumedSurname, <<"v", "a", "n", " ", "d", "e", "r", " ", "W", "a", "a", "l", "s">>)>>
    /\ (pc = "author_done" /\ AuthorWords = AuthorCommand(VonDerLeTann))
           => /\ AuthorList = <<<<"V", "o", "n", " ", "D", "E", "R", " ", "l", "e", " ", "T", "a", "n", "n", ",", "~", "C", ".">>>>
              /\ AssumedNotes = <<Msg(AssumedSurname, <<"V", "o", "n", " ", "D", "E", "R", " ", "l", "e", " ", "T", "a", "n", "n">>)>>
    /\ Len(AssumedNotes) <= Len(AuthorList)

C22_Witness ==
    /\ pc = "author_done"
    /\ AuthorWords = AuthorCommand(VanDerWaals)
    /\ AuthorList = <<<<"v", "a", "n", " ", "d", "e", "r", " ", "W", "a", "a", "l", "s", ",", "~", "A", ".">>>>
    /\ Len(AssumedNotes) = 1

\* C24: AuthorScanCallback terminates on every \author argument text, also
\* where an accent shorthand followed by a space is the last thing before the
\* closing brace: every pass of the accent loop either changes the author
\* text or moves on to the next accent or to the end of the loop
C24_LoopProgresses == pc = "author_accents" => ENABLED <<AccentStep>>_vars

====
